---- MODULE Spec2Model ----
(***************************************************************************)
(* A model of cuuats.datamodel: the condition algebra (Q, SQLCondition),   *)
(* the SQL compiler, the lazily fetched QuerySet with relationship         *)
(* prefetching, and the record lifecycle of BaseFeature (diff/save).       *)
(*                                                                         *)
(* Python objects are records.  Python's None is the record PyNone, an     *)
(* integer n is PyInt(n).  Strings that the compiler produces are modelled *)
(* as sequences of tokens: the text is the tokens joined by single blanks, *)
(* except that "(" is followed by no blank and ")" is preceded by none.    *)
(***************************************************************************)
EXTENDS Integers, Sequences, FiniteSets, TLC

(***************************************************************************)
(* Bounds of the model.                                                    *)
(***************************************************************************)
\* largest number of nodes (Q objects and comparisons) of a condition tree
\* that the combinators are asked to build
MaxNodes == 5

\* largest tree that is kept aside as a second operand
MaxKept == 3

\* largest integer stored in a column or used in a comparison
MaxInt == 4

\* largest number of widgets in the store at the start
MaxWidgets == 2

\* largest number of rows of the relationship table Widget_Warehouse
MaxJoins == 2

\* largest number of filter and exclude calls that refine one QuerySet
MaxRefine == 2

\* largest number of rows inserted into a table
MaxInserts == 1

\* largest break of a scale, and largest number of breaks
MaxBreak == 3

\* the floats a field compares are 1 + 2j/10000 for j up to MaxSteps
MaxSteps == 20

\* largest number of calls on Q objects that a caller makes
MaxCalls == 4

(***************************************************************************)
(* Python values.                                                          *)
(***************************************************************************)
None == "None"

PyNone == [type |-> "NoneType", val |-> 0, items |-> <<>>, names |-> <<>>]

PyInt(n) == [type |-> "int", val |-> n, items |-> <<>>, names |-> <<>>]

\* a float, given in ten-thousandths: PyFloat(10010) is 1.001
PyFloat(n) == [type |-> "float", val |-> n, items |-> <<>>, names |-> <<>>]

\* float('Inf')
Inf == [type |-> "float", val |-> 0, items |-> <<>>, names |-> <<"inf">>]

\* a Python list of integers
PyList(ns) == [type |-> "list", val |-> 0, items |-> ns, names |-> <<>>]

\* field_values.DeferredValue(field_name, db_name)
DeferredValue(field_name, db_name) ==
    [type |-> "DeferredValue", val |-> 0, items |-> <<>>,
     names |-> <<field_name, db_name>>]

IsDeferred(v) == v.type = "DeferredValue"

(***************************************************************************)
(* The schema of the two registered feature classes of tests/base.py,      *)
(* related as in tests/test_foreignkey.py.  Every field is                 *)
(* name |-> [db_name, kind, deferred].                                     *)
(***************************************************************************)
WidgetFieldNames == <<"OBJECTID", "widget_number", "warehouse_id", "Shape">>

WarehouseFieldNames == <<"OBJECTID", "warehouse_zipcode">>

\* the relationship class ManyToManyField._create_relationship_class builds
\* for Warehouse.widgets: two foreign keys and no OID field
RelationshipFieldNames == <<"WarehouseID", "WidgetID">>

FieldNames(cls) ==
    CASE cls = "Widget"           -> WidgetFieldNames
      [] cls = "Widget_Warehouse" -> RelationshipFieldNames
      [] OTHER                    -> WarehouseFieldNames

\* FieldSet.__init__: db_name defaults to the field's name; GeometryField
\* sets db_name 'SHAPE@' and deferred = True.
FieldOf(cls, name) ==
    CASE name = "OBJECTID"     -> [db_name |-> "OBJECTID", kind |-> "OIDField", deferred |-> FALSE]
      [] name = "Shape"        -> [db_name |-> "SHAPE@", kind |-> "GeometryField", deferred |-> TRUE]
      [] name \in {"warehouse_id", "WarehouseID", "WidgetID"}
                               -> [db_name |-> name, kind |-> "ForeignKey", deferred |-> FALSE]
      [] OTHER                 -> [db_name |-> name, kind |-> "NumericField", deferred |-> FALSE]

\* FieldSet.get_db_name
get_db_name(cls, field_name) == FieldOf(cls, field_name).db_name

(***************************************************************************)
(* SQLCondition and Q (query.py).                                          *)
(***************************************************************************)
OPERATORS ==
    [contains |-> "LIKE", eq |-> "=", exact |-> "IS", gt |-> ">",
     in |-> "IN", lt |-> "<", gte |-> ">=", lte |-> "<="]

\* SQLCondition.__init__: the operator is given or intuited from the value.
SQLCondition(field_name, value, op_name) ==
    [kind |-> "C", field_name |-> field_name, value |-> value,
     operator |-> IF op_name = None
                  THEN (IF value.type = "NoneType" THEN OPERATORS["exact"]
                                                   ELSE OPERATORS["eq"])
                  ELSE OPERATORS[op_name]]

IsQ(c) == c.kind = "Q"

\* Q._create() with no arguments: the state Q.__init__ sets.
QCreate ==
    [kind |-> "Q", operator |-> "AND", negated |-> FALSE, rel_name |-> None,
     children |-> <<>>]

\* the value None where a Q is expected (_merge_or_append's result)
NoQ == [kind |-> "None"]

\* Q._parse_field_info on the parts of field_info.split('__')
\* returns (rels, field_name, op_name)
ParseFieldInfo(parts) ==
    LET n == Len(parts)
        hasOp == parts[n] \in DOMAIN OPERATORS
        m == IF hasOp THEN n - 1 ELSE n
    IN  [rels |-> SubSeq(parts, 1, m - 1), field_name |-> parts[m],
         op_name |-> IF hasOp THEN parts[n] ELSE None]

\* the chain of relationship nodes Q._parse_children builds for one pair
RECURSIVE RelChain(_, _)
RelChain(rels, leaf) ==
    IF rels = <<>> THEN leaf
    ELSE [QCreate EXCEPT !.rel_name = Head(rels),
                         !.children = <<RelChain(Tail(rels), leaf)>>]

\* Q.__init__ / Q._parse_children: pairs is the sequence of
\* (field_info parts, value) in the order the dictionary yields them.
RECURSIVE ParseChildren(_, _)
ParseChildren(q, pairs) ==
    IF pairs = <<>> THEN q
    ELSE LET info == ParseFieldInfo(Head(pairs).field_info)
             leaf == SQLCondition(info.field_name, Head(pairs).value, info.op_name)
         IN  ParseChildren(
                 [q EXCEPT !.children = Append(@, RelChain(info.rels, leaf))],
                 Tail(pairs))

Q(pairs) == ParseChildren(QCreate, pairs)

\* Q.__len__
QLen(q) == Len(q.children)

\* Q._clone: the children list is copied, so the clone is a new value
Q_clone(q) == q

\* Q._combine
Combine(self, other, op) ==
    [QCreate EXCEPT !.children = <<Q_clone(self), Q_clone(other)>>,
                    !.operator = op]

\* Q.__and__, Q.__or__, Q.__invert__
QAnd(self, other) == Combine(self, other, "AND")

QOr(self, other) == Combine(self, other, "OR")

QInvert(self) == [Q_clone(self) EXCEPT !.negated = ~self.negated]

_op_match(self, op) == op = self.operator \/ QLen(self) = 1

_can_merge(self, other, op) ==
    /\ _op_match(self, op)
    /\ _op_match(other, op)
    /\ self.negated = other.negated
    /\ self.rel_name = other.rel_name

_can_append(self, other, op) ==
    /\ _op_match(self, op)
    /\ ~self.negated
    /\ (self.rel_name = None \/ self.rel_name = other.rel_name)

_merge(self, other, op) ==
    [self EXCEPT !.children = @ \o other.children, !.operator = op]

_append(self, other, op) ==
    LET child == IF self.rel_name # None
                 THEN [other EXCEPT !.rel_name = None] ELSE other
    IN  [self EXCEPT !.children = Append(@, child), !.operator = op]

_merge_or_append(self, other, op) ==
    IF _can_merge(self, other, op) THEN _merge(self, other, op)
    ELSE IF _can_append(self, other, op) THEN _append(self, other, op)
    ELSE IF _can_append(other, self, op) THEN _append(other, self, op)
    ELSE NoQ

\* truth value of _merge_or_append's result in "if new_child:": None is
\* false, and a Q is true exactly when its __len__ is not zero.
Truthy(new_child) == new_child.kind = "Q" /\ QLen(new_child) > 0

\* itertools.combinations(children, 2) in the order it yields the pairs
PairBefore(p, r) == p[1] < r[1] \/ (p[1] = r[1] /\ p[2] < r[2])

\* One pass of the for loop of Q.simplify (query.py:150-158): the first
\* pair of Q children that merges or appends replaces both members, the
\* new child going first.  The members are removed by position, which is
\* what "c not in (a, b)" does: Q has no __eq__ and the children are
\* distinct objects.
MergePass(q) ==
    LET n == Len(q.children)
        hits == {p \in (1..n) \X (1..n) :
                    /\ p[1] < p[2]
                    /\ IsQ(q.children[p[1]]) /\ IsQ(q.children[p[2]])
                    /\ Truthy(_merge_or_append(q.children[p[1]],
                                               q.children[p[2]], q.operator))}
    IN  IF hits = {} THEN q
        ELSE LET p == CHOOSE h \in hits : \A r \in hits : h = r \/ PairBefore(h, r)
                 new_child == _merge_or_append(q.children[p[1]],
                                               q.children[p[2]], q.operator)
                 rest == SelectSeq([i \in 1..n |-> <<i, q.children[i]>>],
                                   LAMBDA e : e[1] # p[1] /\ e[1] # p[2])
             IN  [q EXCEPT !.children =
                     <<new_child>> \o [i \in 1..Len(rest) |-> rest[i][2]]]

\* the while loop of Q.simplify (query.py:147-158)
RECURSIVE MergeLoop(_, _)
MergeLoop(q, num_children) ==
    IF num_children < Len(q.children)
    THEN MergeLoop(MergePass(q), Len(q.children))
    ELSE q

\* The for loop of query.py:165-169: every Q child that can merge with the
\* parent is taken out and its children are appended, in the order of the
\* snapshot q.children[:].  _can_merge(q, child, q.operator) reads only
\* q's operator, negated and rel_name, which _merge does not change.
MergedIdx(q) ==
    {i \in 1..Len(q.children) :
        IsQ(q.children[i]) /\ _can_merge(q, q.children[i], q.operator)}

RECURSIVE ConcatChildren(_, _, _)
ConcatChildren(children, idx, i) ==
    IF i > Len(children) THEN <<>>
    ELSE (IF i \in idx THEN children[i].children ELSE <<>>)
         \o ConcatChildren(children, idx, i + 1)

MergeWithParent(q) ==
    LET idx == MergedIdx(q)
        n == Len(q.children)
        kept == SelectSeq([i \in 1..n |-> <<i, q.children[i]>>],
                          LAMBDA e : e[1] \notin idx)
    IN  [q EXCEPT !.children = [i \in 1..Len(kept) |-> kept[i][2]]
                                 \o ConcatChildren(q.children, idx, 1)]

\* query.py:172-173
Unnecessary(q) ==
    /\ Len(q.children) = 1
    /\ ~q.negated
    /\ q.rel_name = None
    /\ IsQ(q.children[1])

\* the "while parent_dirty" loop of Q.simplify (query.py:161-175)
RECURSIVE ParentLoop(_)
ParentLoop(q) ==
    LET m == MergeWithParent(q)
        dirty == MergedIdx(q) # {} \/ Unnecessary(m)
        q2 == IF Unnecessary(m) THEN m.children[1] ELSE m
    IN  IF dirty THEN ParentLoop(q2) ELSE q2

\* Q.simplify
RECURSIVE simplify(_)
simplify(self) ==
    LET q == [self EXCEPT !.children =
                 [i \in 1..Len(self.children) |->
                     IF IsQ(self.children[i]) THEN simplify(self.children[i])
                                              ELSE self.children[i]]]
    IN  ParentLoop(MergeLoop(q, 0))

(***************************************************************************)
(* SQLCompiler (query.py).                                                 *)
(***************************************************************************)
\* SQLCompiler._resolve_rel: (feature_class, other_key, self_key).
\* Warehouse.widget_set is the RelatedManager that registering the
\* ForeignKey Widget.warehouse_id installs (fields.py:467-470).
_resolve_rel(feature_class, rel_name) ==
    CASE rel_name = None ->
            [feature_class |-> feature_class, other_key |-> None, self_key |-> None]
      [] feature_class = "Warehouse" /\ rel_name = "widget_set" ->
            [feature_class |-> "Widget",
             other_key |-> get_db_name("Warehouse", "OBJECTID"),
             self_key |-> get_db_name("Widget", "warehouse_id")]
      [] feature_class = "Widget" /\ rel_name = "warehouse_id" ->
            [feature_class |-> "Warehouse",
             other_key |-> FieldOf("Widget", "warehouse_id").db_name,
             self_key |-> get_db_name("Warehouse", "OBJECTID")]
      [] OTHER ->
            [feature_class |-> "AttributeError", other_key |-> None, self_key |-> None]

\* ', '.join of rendered list items
RECURSIVE JoinItems(_)
JoinItems(ns) ==
    IF ns = <<>> THEN <<>>
    ELSE IF Len(ns) = 1 THEN <<ToString(ns[1])>>
    ELSE <<ToString(ns[1]), ",">> \o JoinItems(Tail(ns))

\* SQLCompiler._to_string for None, numbers and lists of numbers
_to_string(value) ==
    CASE value.type = "NoneType" -> <<"NULL">>
      [] value.type = "list"     -> <<"(">> \o JoinItems(value.items) \o <<")">>
      [] OTHER                   -> <<ToString(value.val)>>

\* SQLCompiler._compile_sql_condition
_compile_sql_condition(cond, feature_class) ==
    <<get_db_name(feature_class, cond.field_name), cond.operator>>
        \o _to_string(cond.value)

\* sep.join(where_parts)
RECURSIVE Join(_, _)
Join(parts, sep) ==
    IF parts = <<>> THEN <<>>
    ELSE IF Len(parts) = 1 THEN parts[1]
    ELSE parts[1] \o <<sep>> \o Join(Tail(parts), sep)

\* SQLCompiler.compile of a compiler made for feature_class
RECURSIVE compile(_, _, _)
compile(feature_class, q0, inner) ==
    LET compile_q(q, rel) ==
            LET where_parts ==
                    [i \in 1..Len(q.children) |->
                        IF IsQ(q.children[i])
                        THEN compile(rel.feature_class, q.children[i], FALSE)
                        ELSE _compile_sql_condition(q.children[i], rel.feature_class)]
                joined == Join(where_parts, q.operator)
                grouped == IF Len(where_parts) > 1 /\ (q.negated \/ inner)
                           THEN <<"(">> \o joined \o <<")">> ELSE joined
                where == IF q.negated THEN <<"NOT">> \o grouped ELSE grouped
            IN  IF rel.self_key # None
                THEN <<rel.other_key, "IN", "(", "SELECT", rel.self_key, "FROM",
                       rel.feature_class, "WHERE">> \o where \o <<")">>
                ELSE where
        resolve(q) == compile_q(q, _resolve_rel(feature_class, q.rel_name))
    IN  resolve(simplify(q0))

(***************************************************************************)
(* The row store behind Workspace (workspaces.py).  A table is             *)
(* [rows |-> (OID -> row), next |-> the OID the next insert is given];     *)
(* a row maps every column (db_name) to a value.  The where clause is the  *)
(* SQL text the compiler produced; the store evaluates it with SQL's       *)
(* three-valued logic ("T", "F", "U") and the precedence NOT > AND > OR.   *)
(***************************************************************************)
Columns(cls) ==
    {FieldOf(cls, FieldNames(cls)[i]).db_name : i \in 1..Len(FieldNames(cls))}

NullRow(cls) == [c \in Columns(cls) |-> PyNone]

Not3(a) == CASE a = "T" -> "F" [] a = "F" -> "T" [] OTHER -> "U"

And3(a, b) ==
    IF a = "F" \/ b = "F" THEN "F" ELSE IF a = "T" /\ b = "T" THEN "T" ELSE "U"

Or3(a, b) ==
    IF a = "T" \/ b = "T" THEN "T" ELSE IF a = "F" /\ b = "F" THEN "F" ELSE "U"

\* the integer a numeric token stands for
TokenInt(tok) == CHOOSE n \in -1..(MaxInt + MaxWidgets + MaxInserts) : ToString(n) = tok

\* a comparison of a column value with a literal
Compare3(v, op, tok) ==
    IF op = "IS" THEN (IF (v.type = "NoneType") = (tok = "NULL") THEN "T" ELSE "F")
    ELSE IF v.type = "NoneType" \/ tok = "NULL" THEN "U"
    ELSE LET n == TokenInt(tok)
             holds == CASE op = "="  -> v.val = n
                        [] op = ">"  -> v.val > n
                        [] op = "<"  -> v.val < n
                        [] op = ">=" -> v.val >= n
                        [] op = "<=" -> v.val <= n
                        [] OTHER     -> FALSE
         IN  IF holds THEN "T" ELSE "F"

\* position of the first ")" of a token sequence
RECURSIVE ClosePos(_, _)
ClosePos(ts, i) == IF ts[i] = ")" THEN i ELSE ClosePos(ts, i + 1)

\* the integers of the literal list "( n1 , n2 )" whose tokens are ts[lo..hi]
ListInts(ts, lo, hi) ==
    {TokenInt(ts[i]) : i \in {j \in lo..hi : ts[j] \notin {"(", ")", ","}}}

RECURSIVE EvalExpr(_, _, _)
RECURSIVE EvalOrTail(_, _, _, _)
RECURSIVE EvalTerm(_, _, _)
RECURSIVE EvalAndTail(_, _, _, _)
RECURSIVE EvalFactor(_, _, _)
RECURSIVE EvalCondition(_, _, _)

\* Each Eval operator consumes a prefix of the tokens ts and returns the
\* truth value of that prefix for the row and the tokens left over.
EvalExpr(ts, row, tables) ==
    LET t == EvalTerm(ts, row, tables)
    IN  EvalOrTail(t.v, t.rest, row, tables)

EvalOrTail(v, ts, row, tables) ==
    IF ts # <<>> /\ Head(ts) = "OR"
    THEN LET t == EvalTerm(Tail(ts), row, tables)
         IN  EvalOrTail(Or3(v, t.v), t.rest, row, tables)
    ELSE [v |-> v, rest |-> ts]

EvalTerm(ts, row, tables) ==
    LET f == EvalFactor(ts, row, tables)
    IN  EvalAndTail(f.v, f.rest, row, tables)

EvalAndTail(v, ts, row, tables) ==
    IF ts # <<>> /\ Head(ts) = "AND"
    THEN LET f == EvalFactor(Tail(ts), row, tables)
         IN  EvalAndTail(And3(v, f.v), f.rest, row, tables)
    ELSE [v |-> v, rest |-> ts]

EvalFactor(ts, row, tables) ==
    IF Head(ts) = "NOT"
    THEN LET f == EvalFactor(Tail(ts), row, tables)
         IN  [v |-> Not3(f.v), rest |-> f.rest]
    ELSE IF Head(ts) = "("
    THEN LET e == EvalExpr(Tail(ts), row, tables)
         IN  [v |-> e.v, rest |-> Tail(e.rest)]
    ELSE EvalCondition(ts, row, tables)

EvalCondition(ts, row, tables) ==
    LET v == row[ts[1]]
    IN  IF ts[2] = "IN" /\ Len(ts) >= 4 /\ ts[4] = "SELECT"
        THEN \* column IN ( SELECT key FROM table WHERE expr )
             LET key == ts[5]
                 table == ts[7]
                 inner == SubSeq(ts, 9, Len(ts))
                 rest == Tail(EvalExpr(inner, NullRow(table), tables).rest)
                 rows == tables[table].rows
                 selected == {o \in DOMAIN rows :
                                 EvalExpr(inner, rows[o], tables).v = "T"}
                 keys == {rows[o][key] : o \in selected}
             IN  [v |-> IF v.type = "NoneType" THEN "U"
                        ELSE IF v \in keys THEN "T"
                        ELSE IF PyNone \in keys THEN "U" ELSE "F",
                  rest |-> rest]
        ELSE IF ts[2] = "IN"
        THEN \* column IN ( n1 , n2 )
             LET close == ClosePos(ts, 3)
             IN  [v |-> IF v.type = "NoneType" THEN "U"
                        ELSE IF v.val \in ListInts(ts, 3, close) THEN "T" ELSE "F",
                  rest |-> SubSeq(ts, close + 1, Len(ts))]
        ELSE [v |-> Compare3(v, ts[2], ts[3]), rest |-> SubSeq(ts, 4, Len(ts))]

\* the OIDs of the rows of a table that a where clause selects; no clause
\* (None or the empty string) selects every row
Selected(tables, layer_name, where_clause) ==
    LET rows == tables[layer_name].rows
    IN  IF where_clause = <<>> THEN DOMAIN rows
        ELSE {o \in DOMAIN rows : EvalExpr(where_clause, rows[o], tables).v = "T"}

\* a set of integers as the sequence in ascending or descending order
RECURSIVE SortInts(_, _)
SortInts(S, direction) ==
    IF S = {} THEN <<>>
    ELSE LET m == IF direction = "ASC"
                  THEN CHOOSE x \in S : \A y \in S : x <= y
                  ELSE CHOOSE x \in S : \A y \in S : x >= y
         IN  <<m>> \o SortInts(S \ {m}, direction)

\* Workspace.iter_rows with a search cursor: the selected rows in the order
\* of the postfix clause (ORDER BY the OID column; the store's own order,
\* ascending OID, when there is none), each as the list of the values of
\* field_names, cut off after limit rows (limit 0 stands for None).
iter_rows(tables, layer_name, field_names, where_clause, limit, order_by) ==
    LET cursor(oids) ==
            LET n == IF limit = 0 \/ limit > Len(oids) THEN Len(oids) ELSE limit
            IN  [i \in 1..n |->
                    [j \in 1..Len(field_names) |->
                        tables[layer_name].rows[oids[i]][field_names[j]]]]
    IN  cursor(SortInts(Selected(tables, layer_name, where_clause),
                        IF order_by = <<>> THEN "ASC" ELSE order_by[1][2]))

(***************************************************************************)
(* Records (features.py) and QuerySet (query.py).                          *)
(***************************************************************************)
Range(seq) == {seq[i] : i \in 1..Len(seq)}

EmptyMap == [k \in {} |-> PyNone]

\* BaseFeature.__init__(**kwargs): the values, the snapshot of the values
\* that are not deferred keyed by db_name, and an empty prefetch cache
Feature(cls, kwargs) ==
    LET known == {k \in DOMAIN kwargs : ~IsDeferred(kwargs[k])}
    IN  [cls |-> cls,
         values |-> kwargs,
         db_values |-> [d \in {get_db_name(cls, k) : k \in known} |->
                           kwargs[CHOOSE k \in known : get_db_name(cls, k) = d]],
         _prefetch_cache |-> EmptyMap]

\* BaseField.__get__ of a field that holds a value (no domain, not deferred)
getattr(feature, name) ==
    IF name \in DOMAIN feature.values THEN feature.values[name] ELSE PyNone

\* QuerySet._feature: the row zipped against the requested db names; a
\* field whose db name was not requested gets a DeferredValue
_feature(cls, query_fields, row) ==
    Feature(cls,
        [n \in Range(FieldNames(cls)) |->
            LET d == get_db_name(cls, n)
            IN  IF d \in Range(query_fields)
                THEN row[CHOOSE j \in 1..Len(query_fields) : query_fields[j] = d]
                ELSE DeferredValue(n, d)])

\* the field list QuerySet._make_query builds: the db names of the fields
\* that are not deferred
MakeQueryFields(cls) ==
    LET names == SelectSeq(FieldNames(cls), LAMBDA n : ~FieldOf(cls, n).deferred)
    IN  [i \in 1..Len(names) |-> get_db_name(cls, names[i])]

\* the ordering QuerySet._make_query sets: the OID column, ascending, when
\* the class has an OID field
MakeQueryOrder(cls) ==
    IF "OBJECTID" \in Range(FieldNames(cls))
    THEN <<<<get_db_name(cls, "OBJECTID"), "ASC">>>>
    ELSE <<>>

\* Query.add_q
add_q(where, q) == IF where = NoQ THEN q ELSE QAnd(where, q)

\* Query.set_order: a field given as a string is ordered ascending
set_order(fields) ==
    [i \in 1..Len(fields) |->
        IF Len(fields[i]) = 1 THEN <<fields[i][1], "ASC">> ELSE fields[i]]

\* Query.where
QueryWhere(cls, where) == IF where = NoQ THEN <<>> ELSE compile(cls, where, FALSE)

\* list(QuerySet.iterator(limit)): one iter_rows call of the store
Iterator(tables, cls, query_fields, where, order_by, limit) ==
    LET features(rows) ==
            [i \in 1..Len(rows) |-> _feature(cls, query_fields, rows[i])]
    IN  features(iter_rows(tables, cls, query_fields, QueryWhere(cls, where),
                           limit, order_by))

\* the relationships of a feature class that can be prefetched
\* (RelatedManager Warehouse.widget_set, fields.py:467-470)
RelatedManagers(cls) ==
    IF cls = "Warehouse"
    THEN [widget_set |-> [name |-> "widget_set", destination_class |-> "Widget",
                          foreign_key |-> "warehouse_id", primary_key |-> "OBJECTID"]]
    ELSE EmptyMap

\* QuerySet._prefetch_related_manager: the related rows whose foreign key
\* is IN the primary keys of the batch are fetched by iterating one
\* QuerySet, and bucketed by foreign key in a defaultdict(list).  Result:
\* the batch with the prefetch caches set, and the store queries issued.
PrefetchEntry(dest_features, rel, key) ==
    SelectSeq(dest_features, LAMBDA f : f.values[rel.foreign_key] = key)

\* _prefetch_related_manager with a plain dict: a record without related
\* rows gets no entry
_prefetch_related_manager_dict(tables, cache, rel_name, rel) ==
    LET pks == [i \in 1..Len(cache) |-> getattr(cache[i], rel.primary_key).val]
        q == Q(<<[field_info |-> <<rel.foreign_key, "in">>, value |-> PyList(pks)]>>)
        dest_features ==
            Iterator(tables, rel.destination_class,
                     MakeQueryFields(rel.destination_class), q,
                     MakeQueryOrder(rel.destination_class), 0)
    IN  [cache |->
            [i \in 1..Len(cache) |->
                LET entry == PrefetchEntry(dest_features, rel,
                                           getattr(cache[i], rel.primary_key))
                IN  IF entry = <<>> THEN cache[i]
                    ELSE [cache[i] EXCEPT !._prefetch_cache =
                             (rel_name :> entry) @@ @]],
         queries |-> 1,
         outcome |-> "ok"]

_prefetch_related_manager(tables, cache, rel_name, rel) ==
    LET pks == [i \in 1..Len(cache) |-> getattr(cache[i], rel.primary_key).val]
        q == Q(<<[field_info |-> <<rel.foreign_key, "in">>, value |-> PyList(pks)]>>)
        dest_features ==
            Iterator(tables, rel.destination_class,
                     MakeQueryFields(rel.destination_class), q,
                     MakeQueryOrder(rel.destination_class), 0)
    IN  [cache |->
            [i \in 1..Len(cache) |->
                [cache[i] EXCEPT !._prefetch_cache =
                    (rel_name :> PrefetchEntry(dest_features, rel,
                                               getattr(cache[i], rel.primary_key)))
                    @@ @]],
         queries |-> 1,
         outcome |-> "ok"]

\* the ForeignKey fields of a feature class (tests/test_foreignkey.py)
ForeignKeys(cls) ==
    IF cls = "Widget"
    THEN [warehouse_id |-> [name |-> "warehouse_id", origin_class |-> "Warehouse",
                            primary_key |-> "OBJECTID"]]
    ELSE EmptyMap

\* QuerySet._prefetch_foreign_key: the origin rows whose primary key is IN
\* the foreign keys of the batch that are not None are fetched by one
\* query and mapped by primary key; every record of the batch gets the
\* origin record of its foreign key, or None.
\* _prefetch_foreign_key that gives every record the first related record
\* of the query instead of the one its key maps to
_prefetch_foreign_key_first(tables, cache, rel_name, rel) ==
    LET all_fks == [i \in 1..Len(cache) |-> cache[i].values[rel_name]]
        fks == SelectSeq(all_fks, LAMBDA fk : fk # PyNone)
        q == Q(<<[field_info |-> <<rel.primary_key, "in">>,
                  value |-> PyList([i \in 1..Len(fks) |-> fks[i].val])]>>)
        mapped(origin_features) ==
            [i \in 1..Len(cache) |->
                [cache[i] EXCEPT !._prefetch_cache =
                    (rel_name :> IF origin_features = <<>> THEN PyNone
                                 ELSE origin_features[1]) @@ @]]
    IN  [cache |-> mapped(Iterator(tables, rel.origin_class,
                                   MakeQueryFields(rel.origin_class), q,
                                   MakeQueryOrder(rel.origin_class), 0)),
         queries |-> 1, outcome |-> "ok"]

\* QuerySet._prefetch_foreign_key: one query for the origin records whose
\* primary key is among the non-null keys of the batch, and every record's
\* prefetch cache entry is the origin record its key maps to, or None
_prefetch_foreign_key(tables, cache, rel_name, rel) ==
    LET all_fks == [i \in 1..Len(cache) |-> cache[i].values[rel_name]]
        fks == SelectSeq(all_fks, LAMBDA fk : fk # PyNone)
        q == Q(<<[field_info |-> <<rel.primary_key, "in">>,
                  value |-> PyList([i \in 1..Len(fks) |-> fks[i].val])]>>)
        mapped(origin_features) ==
            [i \in 1..Len(cache) |->
                LET found == SelectSeq(origin_features, LAMBDA f :
                                 getattr(f, rel.primary_key) = all_fks[i])
                IN  [cache[i] EXCEPT !._prefetch_cache =
                        (rel_name :> IF found = <<>> THEN PyNone
                                     ELSE found[Len(found)]) @@ @]]
    IN  [cache |-> mapped(Iterator(tables, rel.origin_class,
                                   MakeQueryFields(rel.origin_class), q,
                                   MakeQueryOrder(rel.origin_class), 0)),
         queries |-> 1,
         outcome |-> "ok"]

\* QuerySet._prefetch: the relationships in the order of the list
\* the many-to-many fields of a feature class (Warehouse.widgets through
\* the relationship class Widget_Warehouse)
ManyToManyFields(cls) ==
    IF cls = "Warehouse"
    THEN [widgets |-> [name |-> "widgets", related_class |-> "Widget",
                       relationship_class |-> "Widget_Warehouse",
                       foreign_key |-> "WarehouseID",
                       related_foreign_key |-> "WidgetID",
                       primary_key |-> "OBJECTID",
                       related_primary_key |-> "OBJECTID"]]
    ELSE EmptyMap

\* QuerySet._prefetch_many_to_many: the join rows of the batch, then the
\* related rows of the join rows; relationship_class_dict.get gives None
\* for a record without join rows, and iterating None raises TypeError
\* when the loop reaches that record
_prefetch_many_to_many(tables, cache, rel_name, rel) ==
    LET pks == [i \in 1..Len(cache) |-> getattr(cache[i], rel.primary_key).val]
        in_q(name, keys) == Q(<<[field_info |-> <<name, "in">>, value |-> PyList(keys)]>>)
        objects_filter(cls, q) ==
            Iterator(tables, cls, MakeQueryFields(cls), q, MakeQueryOrder(cls), 0)
        populate(relationship_class_features, related_class_features) ==
            LET related_class_pks(feature) ==
                    LET mine == SelectSeq(relationship_class_features,
                                    LAMBDA fc : fc.values[rel.foreign_key] =
                                                getattr(feature, rel.primary_key))
                    IN  [j \in 1..Len(mine) |-> mine[j].values[rel.related_foreign_key]]
                related_class_dict_get(pk) ==
                    LET found == SelectSeq(related_class_features,
                                     LAMBDA rc : getattr(rc, rel.related_primary_key) = pk)
                    IN  IF found = <<>> THEN PyNone ELSE found[Len(found)]
                failing == {i \in 1..Len(cache) : related_class_pks(cache[i]) = <<>>}
                stop == IF failing = {} THEN Len(cache) + 1
                        ELSE CHOOSE i \in failing : \A j \in failing : i <= j
            IN  [cache |-> [i \in 1..Len(cache) |->
                               IF i < stop
                               THEN [cache[i] EXCEPT !._prefetch_cache =
                                        (rel_name :>
                                            [j \in 1..Len(related_class_pks(cache[i])) |->
                                                related_class_dict_get(
                                                    related_class_pks(cache[i])[j])]) @@ @]
                               ELSE cache[i]],
                 queries |-> 2,
                 outcome |-> IF failing = {} THEN "ok" ELSE "TypeError"]
        related(relationship_class_features) ==
            populate(relationship_class_features,
                     objects_filter(rel.related_class,
                         in_q(rel.related_primary_key,
                              [j \in 1..Len(relationship_class_features) |->
                                  relationship_class_features[j]
                                      .values[rel.related_foreign_key].val])))
    IN  related(objects_filter(rel.relationship_class, in_q(rel.foreign_key, pks)))

\* the dispatch of QuerySet._prefetch on the kind of the relationship
_prefetch_one(tables, cls, cache, rel_name) ==
    IF rel_name \in DOMAIN RelatedManagers(cls)
    THEN _prefetch_related_manager(tables, cache, rel_name,
                                   RelatedManagers(cls)[rel_name])
    ELSE IF rel_name \in DOMAIN ForeignKeys(cls)
    THEN _prefetch_foreign_key(tables, cache, rel_name, ForeignKeys(cls)[rel_name])
    ELSE IF rel_name \in DOMAIN ManyToManyFields(cls)
    THEN _prefetch_many_to_many(tables, cache, rel_name,
                                ManyToManyFields(cls)[rel_name])
    ELSE [cache |-> cache, queries |-> 0, outcome |-> "AttributeError"]

\* QuerySet._prefetch: the queued relationships in order; an exception
\* ends the loop
RECURSIVE _prefetch(_, _, _, _)
_prefetch(tables, cls, cache, rels) ==
    IF rels = <<>> THEN [cache |-> cache, queries |-> 0, outcome |-> "ok"]
    ELSE LET rest(one) ==
                 LET total(more) ==
                         [cache |-> more.cache,
                          queries |-> one.queries + more.queries,
                          outcome |-> more.outcome]
                 IN  IF one.outcome # "ok" THEN one
                     ELSE total(_prefetch(tables, cls, one.cache, Tail(rels)))
         IN  rest(_prefetch_one(tables, cls, cache, Head(rels)))

\* QuerySet._fetch_all of a QuerySet whose cache is None: the records, the
\* number of store queries issued and the exception raised, if any.  The
\* cache is assigned before _prefetch runs, so it stays filled when
\* _prefetch raises.
_fetch_all(tables, cls, query_fields, where, order_by, rels) ==
    LET fetched(cache) ==
            LET prefetched(pre) ==
                    [cache |-> pre.cache, queries |-> 1 + pre.queries,
                     outcome |-> pre.outcome]
            IN  IF cache # <<>>
                THEN prefetched(_prefetch(tables, cls, cache, rels))
                ELSE [cache |-> cache, queries |-> 1, outcome |-> "ok"]
    IN  fetched(Iterator(tables, cls, query_fields, where, order_by, 0))

\* A QuerySet object.  fields and _prefetch_rel are references to list
\* objects (indexes of the variable lists): Query.clone and QuerySet._clone
\* hand the same list objects to the clone.  history and batch_rels are
\* not attributes of the program's object: history is the sequence of
\* filter/exclude calls that built the condition, batch_rels the
\* relationships that were prefetched when the cache was filled.
NoCache == [fetched |-> FALSE, records |-> <<>>]

NoQuerySet ==
    [feature_class |-> None, fields |-> 0, _where |-> NoQ, _order_by |-> <<>>,
     _cache |-> NoCache, _prefetch_rel |-> 0, history |-> <<>>, batch_rels |-> {}]

FieldsRef == 1

PrefetchRef == 2

\* Manager.__get__ / QuerySet.__init__ / QuerySet._make_query
NewQuerySet(cls) ==
    [feature_class |-> cls, fields |-> FieldsRef, _where |-> NoQ,
     _order_by |-> MakeQueryOrder(cls), _cache |-> NoCache,
     _prefetch_rel |-> PrefetchRef, history |-> <<>>, batch_rels |-> {}]

\* _clone that hands the cache to every clone
QuerySet_clone_with_cache(self, preserve_cache) == self

\* QuerySet._clone
QuerySet_clone(self, preserve_cache) ==
    [self EXCEPT !._cache = IF preserve_cache THEN self._cache ELSE NoCache,
                 !.batch_rels = IF preserve_cache THEN self.batch_rels ELSE {}]

\* QuerySet._make_q: a leading Q argument is combined with the Q of the
\* keyword arguments, otherwise the Q of the keyword arguments alone
_make_q(args, kwargs) ==
    IF args # <<>> /\ IsQ(args[1]) THEN QAnd(args[1], Q(kwargs)) ELSE Q(kwargs)

\* QuerySet.filter: the receiver as the call leaves it, and the clone
QuerySet_filter(self, args, kwargs) ==
    LET clone == QuerySet_clone(self, FALSE)
    IN  [self |-> self,
         result |-> [clone EXCEPT
                       !._where = add_q(clone._where, _make_q(args, kwargs)),
                       !.history = Append(@, [op |-> "filter", args |-> args,
                                              kwargs |-> kwargs])]]

\* QuerySet.exclude
QuerySet_exclude(self, args, kwargs) ==
    LET clone == QuerySet_clone(self, FALSE)
    IN  [self |-> self,
         result |-> [clone EXCEPT
                       !._where = add_q(clone._where,
                                        QInvert(_make_q(args, kwargs))),
                       !.history = Append(@, [op |-> "exclude", args |-> args,
                                              kwargs |-> kwargs])]]

\* QuerySet.order_by
QuerySet_order_by(self, fields) ==
    LET clone == QuerySet_clone(self, FALSE)
    IN  [self |-> self, result |-> [clone EXCEPT !._order_by = set_order(fields)]]

\* QuerySet.all
QuerySet_all(self) == [self |-> self, result |-> QuerySet_clone(self, TRUE)]

(***************************************************************************)
(* Saving records (features.py) and the writes of Workspace.               *)
(***************************************************************************)
\* Workspace.insert_row: the store gives the row the next OID of the table;
\* a column that is not named is null
insert_row(tables, layer_name, field_values) ==
    LET oid == tables[layer_name].next
        row == [c \in Columns(layer_name) |->
                   IF c = "OBJECTID" THEN PyInt(oid)
                   ELSE IF c \in DOMAIN field_values THEN field_values[c]
                   ELSE PyNone]
    IN  [tables |-> [tables EXCEPT ![layer_name] =
                        [rows |-> (oid :> row) @@ @.rows, next |-> oid + 1]],
         oid |-> oid]

\* Workspace.iter_rows with an update cursor and Workspace.update_row for
\* each row of the cursor: the named columns of the selected rows are set
update_rows(tables, layer_name, where_clause, field_values) ==
    LET oids == Selected(tables, layer_name, where_clause)
    IN  [tables |-> [tables EXCEPT ![layer_name].rows =
                        [o \in DOMAIN @ |->
                            IF o \in oids
                            THEN [c \in DOMAIN @[o] |->
                                     IF c \in DOMAIN field_values
                                     THEN field_values[c] ELSE @[o][c]]
                            ELSE @[o]]],
         updated_count |-> Cardinality(oids)]

\* BaseField.__set__ for a value that is neither a CodedValue nor a D
setattr(feature, name, value) ==
    [feature EXCEPT !.values = (name :> value) @@ @]

\* the calculated fields of the fixtures (tests/base.py:151-156 and
\* tests/test_fields.py:19-24) and their classes; none has a column
CalculatedFields ==
    [widget_number_score |-> "ScaleField", double_method |-> "MethodField",
     weights_field |-> "WeightsField"]

\* a __set__ of calculated fields that stores the value
CalculatedField_set_stores(feature, name, value) ==
    [feature |-> setattr(feature, name, value), outcome |-> "ok"]

\* CalculatedField.__set__, which MethodField, WeightsField and ScaleField
\* inherit: ValueError, and the record is not touched
CalculatedField_set(feature, name, value) ==
    [feature |-> feature, outcome |-> "ValueError"]

\* ForeignKey.__set__: the prefetched record of the relationship is
\* dropped, then BaseField.__set__ is called without the instance argument
\* in either branch, which raises TypeError before anything is stored
ForeignKey_set(feature, name, value) ==
    [feature |-> [feature EXCEPT !._prefetch_cache =
                     [k \in DOMAIN @ \ {name} |-> @[k]]],
     outcome |-> "TypeError"]

\* instance.name = value: the __set__ of the descriptor of the attribute
set_attribute(feature, name, value) ==
    IF name \in DOMAIN CalculatedFields
    THEN CalculatedField_set(feature, name, value)
    ELSE IF name \in DOMAIN ForeignKeys(feature.cls)
    THEN ForeignKey_set(feature, name, value)
    ELSE [feature |-> setattr(feature, name, value), outcome |-> "ok"]

\* BaseFeature.get_deferred_values with no argument: Workspace.get_row
\* reads the columns of all deferred fields of the row oid_where selects
\* (at most two rows are read) and the values are updated; db_values is not
get_deferred_values(tables, instance) ==
    LET deferred == {n \in DOMAIN instance.values : IsDeferred(instance.values[n])}
        names == SelectSeq(FieldNames(instance.cls), LAMBDA n : n \in deferred)
        oid_where == QueryWhere(instance.cls,
                         Q(<<[field_info |-> <<"OBJECTID">>,
                              value |-> getattr(instance, "OBJECTID")]>>))
        loaded(rows) ==
            IF Len(rows) = 1
            THEN [feature |-> [instance EXCEPT !.values =
                                  [n \in deferred |->
                                      rows[1][CHOOSE j \in 1..Len(names) : names[j] = n]]
                                  @@ @],
                  outcome |-> "ok"]
            ELSE [feature |-> instance,
                  outcome |-> IF Len(rows) = 0 THEN "ObjectDoesNotExist"
                              ELSE "MultipleObjectsReturned"]
    IN  loaded(iter_rows(tables, instance.cls,
                         [j \in 1..Len(names) |-> get_db_name(instance.cls, names[j])],
                         oid_where, 2, <<>>))

\* a __get__ that reads a deferred field without keeping what it loaded
BaseField_get_forgetful(tables, instance, name) ==
    IF IsDeferred(instance.values[name])
    THEN LET got(d) == [feature |-> instance, queries |-> 1, outcome |-> d.outcome,
                        value |-> IF d.outcome = "ok" THEN d.feature.values[name]
                                  ELSE PyNone]
         IN  got(get_deferred_values(tables, instance))
    ELSE [feature |-> instance, value |-> instance.values[name], queries |-> 0,
          outcome |-> "ok"]

\* BaseField.__get__ of a field without a domain: a deferred value is
\* loaded first, with the other deferred values of the record
BaseField_get(tables, instance, name) ==
    IF IsDeferred(instance.values[name])
    THEN LET got(d) == [feature |-> d.feature, queries |-> 1, outcome |-> d.outcome,
                        value |-> IF d.outcome = "ok" THEN d.feature.values[name]
                                  ELSE PyNone]
         IN  got(get_deferred_values(tables, instance))
    ELSE [feature |-> instance, value |-> instance.values[name], queries |-> 0,
          outcome |-> "ok"]

\* BaseField.__init__: a field without a storage scale
PlainField == [db_scale |-> PyNone]

\* The floats next to these decimals lie below them (IEEE 754 doubles):
\* 1.0005 is stored as 1.000499999999999945..., and so on.
DoubleBelow == {10005, 10025, 10045, 10050, 10065}

\* Python's round(x, ndigits) for a float x >= 0 given in ten-thousandths:
\* the multiple of 10^-ndigits nearest to the float.  A decimal that is
\* exactly half way is not a float; the float next to it decides.
Round(n, ndigits) ==
    LET unit == 10 ^ (4 - ndigits)
        r == n % unit
    IN  IF 2 * r < unit \/ (2 * r = unit /\ n \in DoubleBelow)
        THEN n - r ELSE n - r + unit

\* round that returns every value as it is
round_raw(self, value) == value

\* BaseField.round: a Number is rounded to db_scale places when the field
\* has a db_scale; anything else is returned as it is
round(self, value) ==
    IF self.db_scale # PyNone /\ value.type \in {"int", "float"}
    THEN PyFloat(Round(IF value.type = "int" THEN 10000 * value.val
                                             ELSE value.val, self.db_scale.val))
    ELSE value

\* BaseField.has_changed
has_changed(self, old, new) == round(self, old) # round(self, new)

\* BaseFeature.serialize: the value of every field whose value is not a
\* DeferredValue, keyed by db_name; a field without a value is None
serialize(feature) ==
    LET names == {n \in Range(FieldNames(feature.cls)) :
                     ~IsDeferred(getattr(feature, n))}
    IN  [d \in {get_db_name(feature.cls, n) : n \in names} |->
            getattr(feature, CHOOSE n \in names : get_db_name(feature.cls, n) = d)]

\* BaseFeature.diff: the serialized values that differ from the snapshot
diff(feature) ==
    LET changed(new) ==
            [n \in {d \in DOMAIN new \cap DOMAIN feature.db_values :
                       has_changed(PlainField, feature.db_values[d], new[d])} |->
                [old |-> feature.db_values[n], new |-> new[n]]]
    IN  changed(serialize(feature))

\* _insert without the update of db_values
_insert_without_fold(tables, feature, field_values) ==
    LET oid_name == "OBJECTID"
        without_oid == [n \in DOMAIN field_values \ {get_db_name(feature.cls, oid_name)}
                           |-> field_values[n]]
        ins == insert_row(tables, feature.cls, without_oid)
    IN  [feature |-> setattr(feature, oid_name, PyInt(ins.oid)),
         tables |-> ins.tables,
         writes |-> <<[op |-> "insert", layer_name |-> feature.cls,
                       fields |-> DOMAIN without_oid, oid |-> ins.oid]>>,
         outcome |-> "ok",
         result |-> TRUE]

\* BaseFeature._insert
_insert(tables, feature, field_values) ==
    LET oid_name == "OBJECTID"
        without_oid == [n \in DOMAIN field_values \ {get_db_name(feature.cls, oid_name)}
                           |-> field_values[n]]
        ins == insert_row(tables, feature.cls, without_oid)
        folded == (get_db_name(feature.cls, oid_name) :> PyInt(ins.oid))
                      @@ without_oid
    IN  [feature |-> [setattr(feature, oid_name, PyInt(ins.oid))
                         EXCEPT !.db_values = folded @@ @],
         tables |-> ins.tables,
         writes |-> <<[op |-> "insert", layer_name |-> feature.cls,
                       fields |-> DOMAIN without_oid, oid |-> ins.oid]>>,
         outcome |-> "ok",
         result |-> TRUE]

\* _update without the update of db_values
_update_without_fold(tables, feature, oid, field_values) ==
    LET where_clause == <<"OBJECTID", "=", ToString(oid.val)>>
        updated(upd) ==
            IF upd.updated_count = 0
            THEN [feature |-> feature, tables |-> tables, writes |-> <<>>,
                  outcome |-> "LookupError", result |-> FALSE]
            ELSE [feature |-> feature,
                  tables |-> upd.tables,
                  writes |-> <<[op |-> "update", layer_name |-> feature.cls,
                                fields |-> DOMAIN field_values, oid |-> oid.val]>>,
                  outcome |-> "ok",
                  result |-> TRUE]
    IN  updated(update_rows(tables, feature.cls, where_clause, field_values))

\* _update without the check of updated_count
_update_unchecked(tables, feature, oid, field_values) ==
    LET where_clause == <<"OBJECTID", "=", ToString(oid.val)>>
        updated(upd) ==
            [feature |-> [feature EXCEPT !.db_values = field_values @@ @],
             tables |-> upd.tables,
             writes |-> IF upd.updated_count = 0 THEN <<>>
                        ELSE <<[op |-> "update", layer_name |-> feature.cls,
                                fields |-> DOMAIN field_values, oid |-> oid.val]>>,
             outcome |-> "ok",
             result |-> TRUE]
    IN  updated(update_rows(tables, feature.cls, where_clause, field_values))

\* BaseFeature._update
_update(tables, feature, oid, field_values) ==
    LET where_clause == <<"OBJECTID", "=", ToString(oid.val)>>
        updated(upd) ==
            IF upd.updated_count = 0
            THEN [feature |-> feature, tables |-> tables, writes |-> <<>>,
                  outcome |-> "LookupError", result |-> FALSE]
            ELSE [feature |-> [feature EXCEPT !.db_values = field_values @@ @],
                  tables |-> upd.tables,
                  writes |-> <<[op |-> "update", layer_name |-> feature.cls,
                                fields |-> DOMAIN field_values, oid |-> oid.val]>>,
                  outcome |-> "ok",
                  result |-> TRUE]
    IN  updated(update_rows(tables, feature.cls, where_clause, field_values))

\* BaseFeature.save
save(tables, feature) ==
    LET update(oid, changes) ==
            IF DOMAIN changes = {}
            THEN [feature |-> feature, tables |-> tables, writes |-> <<>>,
                  outcome |-> "ok", result |-> FALSE]
            ELSE _update(tables, feature, oid,
                         [n \in DOMAIN changes |-> changes[n].new])
        insert_or_update(oid) ==
            IF oid = PyNone
            THEN _insert(tables, feature, serialize(feature))
            ELSE update(oid, diff(feature))
    IN  insert_or_update(getattr(feature, "OBJECTID"))

(***************************************************************************)
(* Scales (scales.py).  Breaks, levels and the values that are scored are  *)
(* integers; float('Inf') is the value Inf.                                *)
(***************************************************************************)
\* BreaksScale.__init__
BreaksScale(breaks, levels, right) ==
    [breaks |-> breaks, levels |-> levels, right |-> right,
     outcome |-> IF \E i \in 1..(Len(breaks) - 1) : breaks[i].val > breaks[i + 1].val
                 THEN "ValueError"
                 ELSE IF Len(breaks) + 1 # Len(levels) THEN "IndexError"
                 ELSE "ok"]

\* the scale of a call that found none
NoScaleValue == [breaks |-> <<>>, levels |-> <<>>, right |-> TRUE, outcome |-> None]

\* value < break_value for integers, float('Inf') and None (None sorts first)
LessThan(value, break_value) ==
    IF value = Inf THEN FALSE
    ELSE IF break_value = Inf \/ value = PyNone THEN TRUE
    ELSE value.val < break_value.val

\* get_level that never counts a break as part of the level below it
get_level_left(self, value) ==
    LET breaks == self.breaks \o <<Inf>>
        hits == {i \in 1..Len(self.levels) : LessThan(value, breaks[i])}
    IN  IF hits = {} THEN PyNone
        ELSE self.levels[CHOOSE i \in hits : \A j \in hits : i <= j]

\* BreaksScale.get_level: the level of the first break that the value lies
\* below (or on, when right); None when the loop ends without a return
get_level(self, value) ==
    LET breaks == self.breaks \o <<Inf>>
        hits == {i \in 1..Len(self.levels) :
                    \/ LessThan(value, breaks[i])
                    \/ self.right /\ value = breaks[i]}
    IN  IF hits = {} THEN PyNone
        ELSE self.levels[CHOOSE i \in hits : \A j \in hits : i <= j]

\* ScaleLevel(value, label, weight): weight is 0 or a tuple, written here
\* as a sequence of numbers (<<0>> for 0)
ScaleLevel(value, label, weight) ==
    [type |-> "ScaleLevel", value |-> value, label |-> label, weight |-> weight]

\* DictScale(levels, default): levels is the dictionary as the sequence of
\* its (key, level) items
DictScale(levels, default) == [levels |-> levels, default |-> default]

\* get_levels of a BreaksScale or a DictScale (dict.values())
scale_get_levels(self) ==
    IF "breaks" \in DOMAIN self THEN self.levels
    ELSE [i \in 1..Len(self.levels) |-> self.levels[i][2]]

\* get_level of a BreaksScale or a DictScale: the level of the key, or the
\* default of the scale for a value that is not a key
scale_get_level(self, value) ==
    IF "breaks" \in DOMAIN self THEN get_level(self, value)
    ELSE IF \E i \in 1..Len(self.levels) : self.levels[i][1] = value
    THEN self.levels[CHOOSE i \in 1..Len(self.levels) : self.levels[i][1] = value][2]
    ELSE self.default

\* BaseScale.score: the value of a ScaleLevel, or the level itself
score(self, value) ==
    LET scored(level) ==
            IF level.type = "ScaleLevel" THEN level.value ELSE level
    IN  scored(scale_get_level(self, value))

(***************************************************************************)
(* Calculated fields.  A declaration is the record of the keyword          *)
(* arguments of the field: kind, condition, default, scale, value_field    *)
(* and weights.  A condition is an expression over one attribute of the    *)
(* record, or NoCondition for None.  The scale argument is absent, one     *)
(* scale, or a list of (condition, scale) and (condition, scale, weight)   *)
(* tuples.                                                                 *)
(***************************************************************************)
NoCondition == [op |-> None, name |-> None, value |-> PyNone]

\* the expression 'name op value', e.g. 'widget_number > 100'
Expr(name, op, value) == [op |-> op, name |-> name, value |-> value]

\* the expression that is the name of an attribute
Attr(name) == Expr(name, "attr", PyNone)

NoScaleArg == [form |-> None, scale |-> NoScaleValue, entries |-> <<>>]

OneScale(sc) == [form |-> "scale", scale |-> sc, entries |-> <<>>]

ScaleList(entries) == [form |-> "list", scale |-> NoScaleValue, entries |-> entries]

\* a tuple of a scale list; len is 2 for (condition, scale)
ScaleInfo(condition, sc, weight, len) ==
    [condition |-> condition, scale |-> sc, weight |-> weight, len |-> len]

\* the value of a number in ten-thousandths
Num(v) == IF v.type = "float" THEN v.val ELSE 10000 * v.val

\* a * b and a + b of Python numbers: int when both are int, else float
Mul(a, b) ==
    IF a.type = "int" /\ b.type = "int" THEN PyInt(a.val * b.val)
    ELSE IF a.type = "int" \/ b.type = "int" THEN PyFloat(a.val * b.val)
    ELSE PyFloat((a.val * b.val) \div 10000)

Add(a, b) ==
    IF a.type = "int" /\ b.type = "int" THEN PyInt(a.val + b.val)
    ELSE PyFloat(Num(a) + Num(b))

\* str() of None and of an int
str(v) == IF v = PyNone THEN "None" ELSE ToString(v.val)

\* the code of the description 'Yes' of widget_available
Yes == PyInt(1)

\* Widget.is_available (tests/base.py:158-160)
is_available(instance) == getattr(instance, "widget_available") = Yes

\* Widget._double of the fixture (tests/test_fields.py:30-33), on the
\* widget_number of the record
_double(instance, field_name) ==
    IF getattr(instance, "widget_number") = PyNone THEN PyNone
    ELSE Mul(getattr(instance, "widget_number"), PyInt(2))

\* MethodField.calculate of double_method
MethodField_calculate(instance) == _double(instance, "double_method")

\* getattr(instance, name) where name may be double_method, a MethodField
\* without a condition
instance_getattr(instance, name) ==
    IF name = "double_method" THEN MethodField_calculate(instance)
    ELSE getattr(instance, name)

\* BaseFeature.eval of an expression: the attribute it names is read from
\* the record; None compares below every number; 'self.is_available' is
\* the property of the record
eval(instance, expression) ==
    LET use(v) ==
            CASE expression.op = "attr" -> v
              [] expression.op = ">" ->
                    v # PyNone /\ v.val > expression.value.val
              [] expression.op = "is not" -> v # expression.value
    IN  IF expression.op = "self" THEN is_available(instance)
        ELSE use(instance_getattr(instance, expression.name))

\* BaseFeature.check_condition
check_condition(instance, condition, default) ==
    IF condition = NoCondition THEN default ELSE eval(instance, condition)

\* a calculate that reads the values the record was fetched with
WeightsField_calculate_fetched(self, instance) ==
    LET value(i) ==
            IF self.weights[i][1] = "double_method"
            THEN _double([instance EXCEPT !.values = instance.db_values],
                         "double_method")
            ELSE instance.db_values[self.weights[i][1]]
        sum[i \in 0..Len(self.weights)] ==
            IF i = 0 THEN PyInt(0)
            ELSE Add(sum[i - 1], Mul(value(i), self.weights[i][2]))
    IN  IF \E i \in 1..Len(self.weights) : value(i) = PyNone
        THEN self.default
        ELSE sum[Len(self.weights)]

\* WeightsField.calculate: weights is the dictionary as the sequence of its
\* (field name, weight) items
WeightsField_calculate(self, instance) ==
    LET value(i) == instance_getattr(instance, self.weights[i][1])
        sum[i \in 0..Len(self.weights)] ==
            IF i = 0 THEN PyInt(0)
            ELSE Add(sum[i - 1], Mul(value(i), self.weights[i][2]))
    IN  IF \E i \in 1..Len(self.weights) : value(i) = PyNone
        THEN self.default
        ELSE sum[Len(self.weights)]

\* ScaleField._unpack_scales
_unpack_scales(self) ==
    IF self.scale.form = "scale"
    THEN <<ScaleInfo(NoCondition, self.scale.scale, 0, 3)>>
    ELSE [i \in 1..Len(self.scale.entries) |->
             IF self.scale.entries[i].len = 3 THEN self.scale.entries[i]
             ELSE [self.scale.entries[i] EXCEPT !.weight = i - 1]]

\* ScaleField._get_scale_for: the first entry whose condition holds, or
\* (None, 0)
_get_scale_for(self, instance) ==
    LET scales == _unpack_scales(self)
        hits == {i \in 1..Len(scales) :
                    check_condition(instance, scales[i].condition, TRUE)}
    IN  IF hits = {} THEN [found |-> FALSE, scale |-> NoScaleValue, weight |-> 0]
        ELSE LET i == CHOOSE j \in hits : \A k \in hits : j <= k
             IN  [found |-> TRUE, scale |-> scales[i].scale,
                  weight |-> scales[i].weight]

\* ScaleLevel.wrap
wrap(self, weight) == ScaleLevel(self.value, self.label, <<weight>> \o self.weight)

\* ScaleField._as_scale_level
ScaleField_as_scale_level(scale_weight, level) ==
    IF level.type = "ScaleLevel" THEN wrap(level, scale_weight)
    ELSE ScaleLevel(level, str(level), <<scale_weight, 0>>)

\* CalculatedField._as_scale_level
_as_scale_level(level) ==
    IF level.type = "ScaleLevel" THEN level ELSE ScaleLevel(level, str(level), <<0>>)

\* ScaleField.calculate
ScaleField_calculate(self, instance) ==
    LET use(value, found) ==
            IF ~found.found THEN self.default ELSE score(found.scale, value)
    IN  use(eval(instance, self.value_field), _get_scale_for(self, instance))

\* calculate of the class of the field
calculate(self, instance) ==
    CASE self.kind = "ScaleField" -> ScaleField_calculate(self, instance)
      [] self.kind = "WeightsField" -> WeightsField_calculate(self, instance)
      [] self.kind = "MethodField" -> MethodField_calculate(instance)

\* CalculatedField.__get__
CalculatedField_get(self, instance) ==
    IF ~check_condition(instance, self.condition, TRUE) THEN self.default
    ELSE calculate(self, instance)

\* ScaleField.summarize
ScaleField_summarize(self, instance) ==
    LET use(value, found) ==
            IF ~found.found
            THEN ScaleLevel(self.default, str(self.default), <<0, 0>>)
            ELSE ScaleField_as_scale_level(found.weight,
                                           scale_get_level(found.scale, value))
    IN  [outcome |-> "ok",
         level |-> use(eval(instance, self.value_field),
                       _get_scale_for(self, instance))]

\* CalculatedField.summarize, which WeightsField and MethodField inherit
CalculatedField_summarize(self, instance) ==
    IF self.scale.form = None
    THEN [outcome |-> "AttributeError", level |-> PyNone]
    ELSE [outcome |-> "ok",
          level |-> _as_scale_level(
                        scale_get_level(self.scale.scale,
                                        round(self, calculate(self, instance))))]

\* summarize of the class of the field
summarize(self, instance) ==
    IF self.kind = "ScaleField" THEN ScaleField_summarize(self, instance)
    ELSE CalculatedField_summarize(self, instance)

\* the labels given to levels by the declarations, in the order of str
LabelOrder == <<"high", "low">>

StrLess(a, b) ==
    \E i, j \in 1..Len(LabelOrder) :
        i < j /\ LabelOrder[i] = a /\ LabelOrder[j] = b

\* a < b of tuples of numbers
TupleLess(a, b) ==
    \E i \in 1..Len(b) :
        /\ \A j \in 1..(i - 1) : j <= Len(a) /\ a[j] = b[j]
        /\ i > Len(a) \/ a[i] < b[i]

\* ScaleLevel.__cmp__ < 0: the order of (weight, value, label)
LevelLess(a, b) ==
    \/ TupleLess(a.weight, b.weight)
    \/ a.weight = b.weight /\ a.value # b.value /\ LessThan(a.value, b.value)
    \/ a.weight = b.weight /\ a.value = b.value /\ StrLess(a.label, b.label)

\* sorted(list(set(levels)))
RECURSIVE sorted(_)
sorted(levels) ==
    IF levels = {} THEN <<>>
    ELSE LET first == CHOOSE l \in levels :
                          \A m \in levels \ {l} : LevelLess(l, m)
         IN  <<first>> \o sorted(levels \ {first})

\* ScaleField.get_levels
ScaleField_get_levels(self) ==
    LET scales == _unpack_scales(self)
    IN  [outcome |-> "ok",
         levels |-> sorted(UNION {
             {ScaleField_as_scale_level(scales[i].weight, l) :
                 l \in Range(scale_get_levels(scales[i].scale))} :
             i \in 1..Len(scales)})]

\* CalculatedField.get_levels
CalculatedField_get_levels(self) ==
    IF self.scale.form = None
    THEN [outcome |-> "AttributeError", levels |-> <<>>]
    ELSE [outcome |-> "ok",
          levels |-> sorted({_as_scale_level(l) :
                                l \in Range(scale_get_levels(self.scale.scale))})]

\* get_levels of the class of the field
get_levels(self) ==
    IF self.kind = "ScaleField" THEN ScaleField_get_levels(self)
    ELSE CalculatedField_get_levels(self)

\* QuerySet.summarize without extra aggregates, over the fetched records:
\* a bucket per level of get_levels(), and KeyError for a record whose
\* level has no bucket
QuerySet_summarize(summary_field, features) ==
    LET use(levels, placed) ==
            IF levels.outcome # "ok"
            THEN [outcome |-> levels.outcome, result |-> <<>>]
            ELSE IF \E i \in 1..Len(placed) : placed[i].outcome # "ok"
            THEN [outcome |-> "AttributeError", result |-> <<>>]
            ELSE IF \E i \in 1..Len(placed) :
                        placed[i].level \notin Range(levels.levels)
            THEN [outcome |-> "KeyError", result |-> <<>>]
            ELSE [outcome |-> "ok",
                  result |-> [k \in 1..Len(levels.levels) |->
                      [count |-> Cardinality({i \in 1..Len(placed) :
                                     placed[i].level = levels.levels[k]}),
                       value |-> levels.levels[k].value,
                       label |-> levels.levels[k].label]]]
    IN  use(get_levels(summary_field),
            [i \in 1..Len(features) |-> summarize(summary_field, features[i])])

(***************************************************************************)
(* Validation.  A message is the pair of the label of the field and the    *)
(* text that follows it.                                                   *)
(***************************************************************************)
\* the validated declarations: the fields of Widget (tests/base.py:145-156)
\* whose values are numbers, with the coded values of widget_available as
\* its choices, and base_field and numeric_field of tests/test_fields.py
Declaration(kind, label, required, required_if, choices, min, max) ==
    [kind |-> kind, label |-> label, required |-> required,
     required_if |-> required_if, choices |-> choices, min |-> min, max |-> max]

ValidatedNames ==
    <<"OBJECTID", "widget_description", "widget_number", "widget_available",
      "widget_price", "warehouse_id", "widget_number_score", "Shape",
      "base_field", "numeric_field">>

DeclarationOf(name) ==
    CASE name = "OBJECTID" ->
            Declaration("OIDField", "OID", FALSE, NoCondition, {}, PyNone, PyNone)
      [] name = "widget_description" ->
            Declaration("BaseField", "Widget Description", FALSE, NoCondition,
                        {}, PyNone, PyNone)
      [] name = "widget_number" ->
            Declaration("NumericField", "Widget Number", TRUE, NoCondition,
                        {}, PyNone, PyNone)
      [] name = "widget_available" ->
            Declaration("NumericField", "Is Widget Available?", TRUE,
                        NoCondition, {PyInt(0), PyInt(1)}, PyNone, PyNone)
      [] name = "widget_price" ->
            Declaration("NumericField", "Widget Price", FALSE,
                        Expr("is_available", "self", PyNone), {}, PyNone, PyNone)
      [] name = "warehouse_id" ->
            Declaration("ForeignKey", "Warehouse ID", FALSE, NoCondition,
                        {}, PyNone, PyNone)
      [] name = "widget_number_score" ->
            Declaration("CalculatedField", "Widget Number Score", FALSE,
                        NoCondition, {}, PyNone, PyNone)
      [] name = "Shape" ->
            Declaration("GeometryField", "Shape", FALSE, NoCondition,
                        {}, PyNone, PyNone)
      [] name = "base_field" ->
            Declaration("BaseField", "Base Field", TRUE, NoCondition,
                        {PyInt(0), PyInt(1), PyInt(2)}, PyNone, PyNone)
      [] name = "numeric_field" ->
            Declaration("NumericField", "Numeric Field", FALSE, NoCondition,
                        {}, PyInt(0), PyInt(10))

\* BaseField.validate
BaseField_validate(self, value) ==
    IF self.required /\ value = PyNone THEN <<<<self.label, "is missing">>>>
    ELSE IF self.choices # {} /\ value # PyNone /\ value \notin self.choices
    THEN <<<<self.label, "is invalid">>>>
    ELSE <<>>

\* NumericField.validate
NumericField_validate(self, value) ==
    LET messages == BaseField_validate(self, value)
    IN  IF value = PyNone THEN messages
        ELSE IF \/ self.min # PyNone /\ value.val < self.min.val
                \/ self.max # PyNone /\ value.val > self.max.val
        THEN Append(messages, <<self.label, "out of range">>)
        ELSE messages

\* validate of the class of the field; OIDs are always valid
field_validate(self, value) ==
    CASE self.kind = "OIDField" -> <<>>
      [] self.kind = "NumericField" -> NumericField_validate(self, value)
      [] OTHER -> BaseField_validate(self, value)

\* a validate that leaves every field to its own validation
validate_fields_only(self) ==
    LET messages[i \in 0..Len(ValidatedNames)] ==
            IF i = 0 THEN <<>>
            ELSE LET field_name == ValidatedNames[i]
                     declared == DeclarationOf(field_name)
                     value == getattr(self, field_name)
                 IN  IF declared.kind \in {"ForeignKey", "CalculatedField"}
                     THEN messages[i - 1]
                     ELSE IF IsDeferred(value) THEN messages[i - 1]
                     ELSE messages[i - 1] \o field_validate(declared, value)
    IN  messages[Len(ValidatedNames)]

\* BaseFeature.validate
validate(self) ==
    LET messages[i \in 0..Len(ValidatedNames)] ==
            IF i = 0 THEN <<>>
            ELSE LET field_name == ValidatedNames[i]
                     declared == DeclarationOf(field_name)
                     value == getattr(self, field_name)
                 IN  IF declared.kind \in {"ForeignKey", "CalculatedField"}
                     THEN messages[i - 1]
                     ELSE IF IsDeferred(value) THEN messages[i - 1]
                     ELSE IF value = PyNone
                             /\ check_condition(self, declared.required_if, FALSE)
                     THEN Append(messages[i - 1], <<declared.label, "is missing">>)
                     ELSE messages[i - 1] \o field_validate(declared, value)
    IN  messages[Len(ValidatedNames)]

(***************************************************************************)
(* Q objects by identity.  objs is the sequence of the Q objects made so   *)
(* far; a Q child of an object is a reference to its position in objs, so  *)
(* that two trees may share an object and a write names the object it      *)
(* changes.  SQLCondition children are values: no method writes to them.   *)
(***************************************************************************)
Ref(id) == [kind |-> "Q", id |-> id]

\* Q._create(): a new object
Heap_create(objs) == [objs |-> Append(objs, QCreate), id |-> Len(objs) + 1]

\* a _clone that hands out the object itself
Heap_clone_same(objs, id) == [objs |-> objs, id |-> id]

\* Q._clone: a new object with the operator, negated and rel_name of self
\* and a copy of its list of children; the children themselves are shared
Heap_clone(objs, id) ==
    [objs |-> Append(objs, objs[id]), id |-> Len(objs) + 1]

\* Q.__invert__
Heap_invert(objs, id) ==
    LET use(q) ==
            [objs |-> [q.objs EXCEPT ![q.id].negated = ~objs[id].negated],
             id |-> q.id]
    IN  use(Heap_clone(objs, id))

\* Q._combine
Heap_combine(objs, self, other, op) ==
    LET q == Heap_create(objs)
        a == Heap_clone(q.objs, self)
        b == Heap_clone(a.objs, other)
    IN  [objs |-> [b.objs EXCEPT ![q.id].children = <<Ref(a.id), Ref(b.id)>>,
                                 ![q.id].operator = op],
         id |-> q.id]

\* Q._merge
Heap_merge(objs, self, other, op) ==
    LET q == Heap_clone(objs, self)
    IN  [objs |-> [q.objs EXCEPT ![q.id].children = @ \o objs[other].children,
                                 ![q.id].operator = op],
         id |-> q.id]

\* Q._append
Heap_append(objs, self, other, op) ==
    LET q == Heap_clone(objs, self)
        child == Heap_clone(q.objs, other)
        cleared == IF objs[self].rel_name # None
                   THEN [child.objs EXCEPT ![child.id].rel_name = None]
                   ELSE child.objs
    IN  [objs |-> [cleared EXCEPT ![q.id].children = Append(@, Ref(child.id)),
                                  ![q.id].operator = op],
         id |-> q.id]

\* Q._merge_or_append; id 0 is None
Heap_merge_or_append(objs, self, other, op) ==
    IF _can_merge(objs[self], objs[other], op)
    THEN Heap_merge(objs, self, other, op)
    ELSE IF _can_append(objs[self], objs[other], op)
    THEN Heap_append(objs, self, other, op)
    ELSE IF _can_append(objs[other], objs[self], op)
    THEN Heap_append(objs, other, self, op)
    ELSE [objs |-> objs, id |-> 0]

\* One pass of the for loop of Q.simplify (query.py:150-158) on the object
\* q: the first pair of Q children whose _merge_or_append is true replaces
\* both members.  The objects that the calls for the pairs before it made
\* are referenced by nothing and are left out.
Heap_MergePass(objs, q) ==
    LET children == objs[q].children
        n == Len(children)
        new_child(p) == Heap_merge_or_append(objs, children[p[1]].id,
                                             children[p[2]].id, objs[q].operator)
        hits == {p \in (1..n) \X (1..n) :
                    /\ p[1] < p[2]
                    /\ IsQ(children[p[1]]) /\ IsQ(children[p[2]])
                    /\ new_child(p).id # 0
                    /\ Len(new_child(p).objs[new_child(p).id].children) > 0}
    IN  IF hits = {} THEN objs
        ELSE LET p == CHOOSE h \in hits : \A r \in hits : h = r \/ PairBefore(h, r)
                 made == new_child(p)
             IN  [made.objs EXCEPT ![q].children =
                     <<Ref(made.id)>>
                     \o SelectSeq(children,
                                  LAMBDA c : c # children[p[1]] /\ c # children[p[2]])]

\* the while loop of Q.simplify (query.py:147-158)
RECURSIVE Heap_MergeLoop(_, _, _)
Heap_MergeLoop(objs, q, num_children) ==
    IF num_children < Len(objs[q].children)
    THEN Heap_MergeLoop(Heap_MergePass(objs, q), q, Len(objs[q].children))
    ELSE objs

\* the for loop of query.py:165-169 over the snapshot q.children[:], from
\* its i-th member on: a child that merges with q is taken out of q's list
\* and q becomes the object that q._merge returns
RECURSIVE Heap_MergeWithParent(_, _, _, _)
Heap_MergeWithParent(objs, q, snapshot, i) ==
    IF i > Len(snapshot) THEN [objs |-> objs, id |-> q, dirty |-> FALSE]
    ELSE LET child == snapshot[i]
         IN  IF IsQ(child) /\ _can_merge(objs[q], objs[child.id], objs[q].operator)
             THEN LET taken == [objs EXCEPT ![q].children =
                                   SelectSeq(@, LAMBDA c : c # child)]
                      merged == Heap_merge(taken, q, child.id, objs[q].operator)
                  IN  [Heap_MergeWithParent(merged.objs, merged.id, snapshot, i + 1)
                          EXCEPT !.dirty = TRUE]
             ELSE Heap_MergeWithParent(objs, q, snapshot, i + 1)

\* the "while parent_dirty" loop of Q.simplify (query.py:161-175)
RECURSIVE Heap_ParentLoop(_, _)
Heap_ParentLoop(objs, q) ==
    LET m == Heap_MergeWithParent(objs, q, objs[q].children, 1)
        unnecessary == Unnecessary(m.objs[m.id])
        q2 == IF unnecessary THEN m.objs[m.id].children[1].id ELSE m.id
    IN  IF m.dirty \/ unnecessary THEN Heap_ParentLoop(m.objs, q2)
        ELSE [objs |-> m.objs, id |-> q2]

\* Q.simplify
RECURSIVE Heap_simplify(_, _)
RECURSIVE Heap_simplify_children(_, _, _)
Heap_simplify_children(objs, children, i) ==
    IF i > Len(children) THEN [objs |-> objs, children |-> <<>>]
    ELSE IF IsQ(children[i])
    THEN LET c == Heap_simplify(objs, children[i].id)
             rest == Heap_simplify_children(c.objs, children, i + 1)
         IN  [objs |-> rest.objs, children |-> <<Ref(c.id)>> \o rest.children]
    ELSE LET rest == Heap_simplify_children(objs, children, i + 1)
         IN  [objs |-> rest.objs, children |-> <<children[i]>> \o rest.children]

Heap_simplify(objs, self) ==
    LET q == Heap_clone(objs, self)
        simplified == Heap_simplify_children(q.objs, objs[self].children, 1)
        assigned == [simplified.objs EXCEPT ![q.id].children = simplified.children]
    IN  Heap_ParentLoop(Heap_MergeLoop(assigned, q.id, 0), q.id)

\* the objects after SQLCompiler.compile(q): q.simplify(), and compile for
\* every Q child of the simplified tree
RECURSIVE Heap_compile(_, _)
RECURSIVE Heap_compile_children(_, _, _)
Heap_compile_children(objs, children, i) ==
    IF i > Len(children) THEN objs
    ELSE IF IsQ(children[i])
    THEN Heap_compile_children(Heap_compile(objs, children[i].id), children, i + 1)
    ELSE Heap_compile_children(objs, children, i + 1)

Heap_compile(objs, q) ==
    LET s == Heap_simplify(objs, q)
    IN  Heap_compile_children(s.objs, s.objs[s.id].children, 1)

\* the objects of a tree of Q(**filters), the root made last
RECURSIVE Heap_store(_, _)
RECURSIVE Heap_store_children(_, _, _)
Heap_store_children(objs, children, i) ==
    IF i > Len(children) THEN [objs |-> objs, children |-> <<>>]
    ELSE IF IsQ(children[i])
    THEN LET c == Heap_store(objs, children[i])
             rest == Heap_store_children(c.objs, children, i + 1)
         IN  [objs |-> rest.objs, children |-> <<Ref(c.id)>> \o rest.children]
    ELSE LET rest == Heap_store_children(objs, children, i + 1)
         IN  [objs |-> rest.objs, children |-> <<children[i]>> \o rest.children]

Heap_store(objs, q) ==
    LET stored == Heap_store_children(objs, q.children, 1)
    IN  [objs |-> Append(stored.objs, [q EXCEPT !.children = stored.children]),
         id |-> Len(stored.objs) + 1]

\* the tree of an object: its fields, and the trees of its children
RECURSIVE Tree(_, _)
Tree(objs, id) ==
    [objs[id] EXCEPT !.children =
        [i \in 1..Len(@) |-> IF IsQ(@[i]) THEN Tree(objs, @[i].id) ELSE @[i]]]

(***************************************************************************)
(* State.                                                                  *)
(***************************************************************************)
VARIABLES
    qa,     \* condition algebra: the condition tree under construction
    qb,     \* condition algebra: a second tree, kept for later use as an operand
    store,  \* the tables of the workspace
    lists,  \* the list objects that QuerySets share by reference
    cur,    \* the QuerySet the caller holds
    last,   \* what the caller's last call did and returned
    rec,    \* the record the caller holds
    held,   \* a QuerySet the caller kept when going on with a clone of it
    scale,  \* the scale a caller scores values with
    field,  \* the field a caller compares values with
    editor, \* the edit session of the workspace
    objects \* the Q objects made so far and the caller's variables for them

qvars == <<qa, qb>>

fvars == <<scale, field, editor, objects>>

svars == <<store, lists, cur, last, rec, held, fvars>>

vars == <<qa, qb, store, lists, cur, last, rec, held, scale, field, editor,
          objects>>

\* the report of a call: the QuerySet it returned (new), the receiver and
\* the list objects as they were before the call, the store queries issued,
\* the exception raised or "ok", and the records returned
Report(op, args, new, before, heap, queries, outcome, result) ==
    [op |-> op, args |-> args, new |-> new, before |-> before, lists |-> heap,
     queries |-> queries, outcome |-> outcome, result |-> result]

\* the report of a call on a record: the record and the tables as they
\* were before the call, the rows the call wrote, the exception raised or
\* "ok", the value returned, and the call before this one
RecordReport(op, args, before, tables, writes, outcome, result, prior) ==
    [op |-> op, args |-> args, before |-> before, tables |-> tables,
     writes |-> writes, outcome |-> outcome, result |-> result,
     prior |-> [op |-> prior.op, outcome |-> prior.outcome,
                result |-> prior.result]]

NoRecord == [cls |-> None]

\* no Q object made and no variable bound
NoObjects == [objs |-> <<>>, names |-> <<>>, calls |-> 0]

\* arcpy.da.Editor(path) of Workspace.__init__: no session, no operation
ClosedEditor == [editing |-> FALSE, operation |-> FALSE]

NoScale == NoScaleValue

NoReport == Report("none", <<>>, NoQuerySet, NoQuerySet, <<>>, 0, "ok", <<>>)

\* the fixture: two warehouses, and widgets whose OID is their position
WarehouseRows ==
    (1 :> [OBJECTID |-> PyInt(1), warehouse_zipcode |-> PyNone])
    @@ (2 :> [OBJECTID |-> PyInt(2), warehouse_zipcode |-> PyInt(2)])

WidgetRow(oid, number, fk, shape) ==
    ("OBJECTID" :> PyInt(oid)) @@ ("widget_number" :> number)
    @@ ("warehouse_id" :> fk) @@ ("SHAPE@" :> shape)

\* the foreign keys of the widgets of a store: warehouse 2 has no widgets
ForeignKeyChoices ==
    UNION {[1..n -> {PyInt(1), PyNone}] : n \in 0..MaxWidgets}

StoreWith(fks) ==
    [Warehouse |-> [rows |-> WarehouseRows, next |-> 3],
     Widget |-> [rows |-> [i \in 1..Len(fks) |->
                              WidgetRow(i, PyInt(i), fks[i], PyInt(10 + i))],
                 next |-> Len(fks) + 1]]

IdleStore == StoreWith(<<>>)

\* one widget in warehouse 1 and one widget in no warehouse
FixtureStore == StoreWith(<<PyInt(1), PyNone>>)

IdleLists == <<<<>>, <<>>>>

(***************************************************************************)
(* The condition algebra as a state machine: callers build trees from      *)
(* field/value pairs and combine them with &, | and ~.                     *)
(***************************************************************************)
\* number of Q objects and comparisons of a tree
RECURSIVE Nodes(_)
RECURSIVE NodesOfSeq(_)
Nodes(c) == IF IsQ(c) THEN 1 + NodesOfSeq(c.children) ELSE 1

NodesOfSeq(cs) == IF cs = <<>> THEN 0 ELSE Nodes(Head(cs)) + NodesOfSeq(Tail(cs))

\* the field/value pairs callers filter Warehouse by
PairChoices ==
    { [field_info |-> <<"OBJECTID">>, value |-> PyInt(1)],
      [field_info |-> <<"warehouse_zipcode">>, value |-> PyNone],
      [field_info |-> <<"widget_set", "OBJECTID">>, value |-> PyInt(1)],
      [field_info |-> <<"widget_set", "widget_number", "gt">>, value |-> PyInt(2)],
      [field_info |-> <<"widget_set", "warehouse_id">>, value |-> PyInt(1)] }

\* a dictionary of pairs in the order it is iterated: the keys are distinct
PairSeqs ==
    {<<>>}
    \cup {<<p>> : p \in PairChoices}
    \cup {<<p, r>> : p, r \in PairChoices} 
    \cup {<<p, r, t>> : p, r, t \in PairChoices}

DistinctKeys(ps) ==
    \A i, j \in 1..Len(ps) : i # j => ps[i].field_info # ps[j].field_info

QInitial == QCreate

\* the pairs of the Q objects that are combined with a tree already built
OperandPairs ==
    { ps \in PairSeqs :
        /\ Len(ps) <= 1
        /\ \A i \in 1..Len(ps) : ps[i].field_info \in
              {<<"OBJECTID">>, <<"widget_set", "OBJECTID">>,
               <<"widget_set", "widget_number", "gt">>} }

\* qa = Q(**pairs), for a caller that starts a new tree
QNew(ps) ==
    /\ qa = QInitial
    /\ DistinctKeys(ps)
    /\ qa' = Q(ps)
    /\ UNCHANGED <<qb, svars>>

\* qa = qa & Q(**pairs)   or   qa = Q(**pairs) & qa
QAndPairs(ps, left) ==
    /\ Nodes(qa) + Nodes(Q(ps)) + 1 <= MaxNodes
    /\ qa' = IF left THEN QAnd(Q(ps), qa) ELSE QAnd(qa, Q(ps))
    /\ UNCHANGED <<qb, svars>>

\* qa = qa | Q(**pairs)   or   qa = Q(**pairs) | qa
QOrPairs(ps, left) ==
    /\ Nodes(qa) + Nodes(Q(ps)) + 1 <= MaxNodes
    /\ qa' = IF left THEN QOr(Q(ps), qa) ELSE QOr(qa, Q(ps))
    /\ UNCHANGED <<qb, svars>>

\* qa = ~qa
QNot ==
    /\ qa' = QInvert(qa)
    /\ UNCHANGED <<qb, svars>>

\* the caller drops the tree and starts over
QDrop ==
    /\ qa # QInitial
    /\ qa' = QInitial
    /\ UNCHANGED <<qb, svars>>

\* qb = qa
QKeep ==
    /\ Nodes(qa) <= MaxKept
    /\ qb' = qa
    /\ UNCHANGED <<qa, svars>>

\* qa = qa & qb
QAndKept ==
    /\ Nodes(qa) + Nodes(qb) + 1 <= MaxNodes
    /\ qa' = QAnd(qa, qb)
    /\ UNCHANGED <<qb, svars>>

\* qa = qa | qb
QOrKept ==
    /\ Nodes(qa) + Nodes(qb) + 1 <= MaxNodes
    /\ qa' = QOr(qa, qb)
    /\ UNCHANGED <<qb, svars>>

InitQ ==
    /\ qa = QInitial
    /\ qb = QInitial
    /\ store = IdleStore
    /\ lists = IdleLists
    /\ cur = NoQuerySet
    /\ last = NoReport
    /\ rec = NoRecord
    /\ held = NoQuerySet
    /\ scale = NoScale
    /\ field = PlainField
    /\ editor = ClosedEditor
    /\ objects = NoObjects

NextQ ==
    \/ \E ps \in PairSeqs : QNew(ps)
    \/ \E ps \in OperandPairs, left \in BOOLEAN : QAndPairs(ps, left)
    \/ \E ps \in OperandPairs, left \in BOOLEAN : QOrPairs(ps, left)
    \/ QNot
    \/ QDrop
    \/ QKeep
    \/ QAndKept
    \/ QOrKept

SpecQ == InitQ /\ [][NextQ]_vars

(***************************************************************************)
(* The QuerySet as a state machine: a caller obtains a QuerySet from the   *)
(* manager of Warehouse, refines it, fetches it and reads relationships.   *)
(***************************************************************************)
OnWidgetSet(parts, value) ==
    [field_info |-> <<"widget_set">> \o parts, value |-> value]

Own(parts, value) == [field_info |-> parts, value |-> value]

\* keyword arguments of filter and exclude calls
FilterKwargs ==
    { <<OnWidgetSet(<<"OBJECTID">>, PyInt(1))>>,
      <<OnWidgetSet(<<"widget_number", "gte">>, PyInt(2))>>,
      <<OnWidgetSet(<<"OBJECTID">>, PyInt(1)),
        OnWidgetSet(<<"warehouse_id">>, PyInt(1)),
        OnWidgetSet(<<"widget_number", "gte">>, PyInt(2))>> }

ExcludeKwargs == { <<OnWidgetSet(<<"OBJECTID">>, PyInt(1))>> }

\* keyword arguments that narrow a batch of warehouses
BatchKwargs ==
    { <<Own(<<"OBJECTID">>, PyInt(1))>>, <<Own(<<"warehouse_zipcode">>, PyInt(2))>> }

\* arguments of get calls: keyword arguments, or a Q object
GetArgs ==
    { [args |-> <<>>, kwargs |-> <<Own(<<"OBJECTID">>, PyInt(1))>>],
      [args |-> <<>>, kwargs |-> <<Own(<<"OBJECTID">>, PyInt(3))>>],
      [args |-> <<>>, kwargs |-> <<Own(<<"OBJECTID", "gte">>, PyInt(1))>>],
      [args |-> <<QInvert(QAnd(Q(<<Own(<<"OBJECTID">>, PyInt(1))>>),
                               Q(<<Own(<<"OBJECTID">>, PyInt(2))>>)))>>,
       kwargs |-> <<>>] }

OrderChoices == { <<<<"OBJECTID", "DESC">>>> }

\* RelatedManager.__get__ followed by iteration of the QuerySet it returns:
\* the QuerySet filters the related class by the instance's primary key and
\* takes the prefetched list, if there is one, as its cache.
RelatedManager_get(tables, instance, rel) ==
    IF rel.name \in DOMAIN instance._prefetch_cache
    THEN [cache |-> instance._prefetch_cache[rel.name], queries |-> 0,
          outcome |-> "ok"]
    ELSE _fetch_all(tables, rel.destination_class,
                    MakeQueryFields(rel.destination_class),
                    Q(<<[field_info |-> <<rel.foreign_key>>,
                         value |-> getattr(instance, rel.primary_key)]>>),
                    MakeQueryOrder(rel.destination_class), <<>>)

\* ForeignKey.__get__: None for a null key, the prefetched record when the
\* prefetch cache holds one, otherwise origin_class.objects.get
ForeignKey_get(tables, instance, fk) ==
    LET value == getattr(instance, fk.name)
        prefetched_feature ==
            IF fk.name \in DOMAIN instance._prefetch_cache
            THEN instance._prefetch_cache[fk.name] ELSE PyNone
        got(f) == [result |-> IF Len(f.cache) = 1 THEN f.cache[1] ELSE PyNone,
                   queries |-> f.queries,
                   outcome |-> IF Len(f.cache) = 1 THEN "ok"
                               ELSE IF Len(f.cache) = 0 THEN "ObjectDoesNotExist"
                               ELSE "MultipleObjectsReturned"]
    IN  IF value = PyNone
        THEN [result |-> PyNone, queries |-> 0, outcome |-> "ok"]
        ELSE IF prefetched_feature # PyNone
        THEN [result |-> prefetched_feature, queries |-> 0, outcome |-> "ok"]
        ELSE got(_fetch_all(tables, fk.origin_class,
                            MakeQueryFields(fk.origin_class),
                            Q(<<[field_info |-> <<fk.primary_key>>, value |-> value]>>),
                            MakeQueryOrder(fk.origin_class), <<>>))

\* QuerySet.get: the clone is filtered and fetched, and its length decides
QuerySet_get(tables, self, heap, args, kwargs) ==
    LET decide(f, clone_length) ==
            [queries |-> f.queries,
             outcome |-> IF f.outcome # "ok" THEN f.outcome
                         ELSE IF clone_length = 1 THEN "ok"
                         ELSE IF clone_length = 0 THEN "ObjectDoesNotExist"
                         ELSE "MultipleObjectsReturned",
             result |-> IF f.outcome = "ok" /\ clone_length = 1
                        THEN <<f.cache[1]>> ELSE <<>>]
        fetch(f) == decide(f, Len(f.cache))
        filtered(clone) ==
            fetch(_fetch_all(tables, clone.feature_class, heap[clone.fields],
                             add_q(clone._where, _make_q(args, kwargs)),
                             clone._order_by, heap[clone._prefetch_rel]))
    IN  filtered(QuerySet_clone(self, FALSE))

\* cur = cls.objects
Objects(cls) ==
    /\ cur' = NewQuerySet(cls)
    /\ lists' = <<MakeQueryFields(cls), <<>>>>
    /\ last' = Report("objects", <<>>, NoQuerySet, NoQuerySet, lists, 0, "ok", <<>>)
    /\ held' = NoQuerySet
    /\ UNCHANGED <<store, qvars, rec, fvars>>

\* cur.filter(**kwargs)
Filter(kwargs) ==
    /\ cur # NoQuerySet
    /\ Len(cur.history) < MaxRefine
    /\ LET r == QuerySet_filter(cur, <<>>, kwargs)
       IN  /\ cur' = r.self
           /\ last' = Report("filter", kwargs, r.result, cur, lists, 0, "ok", <<>>)
    /\ UNCHANGED <<lists, store, qvars, rec, held, fvars>>

\* cur.exclude(**kwargs)
Exclude(kwargs) ==
    /\ cur # NoQuerySet
    /\ Len(cur.history) < MaxRefine
    /\ LET r == QuerySet_exclude(cur, <<>>, kwargs)
       IN  /\ cur' = r.self
           /\ last' = Report("exclude", kwargs, r.result, cur, lists, 0, "ok", <<>>)
    /\ UNCHANGED <<lists, store, qvars, rec, held, fvars>>

\* cur.order_by(fields)
OrderBy(fields) ==
    /\ cur # NoQuerySet
    /\ LET r == QuerySet_order_by(cur, fields)
       IN  /\ cur' = r.self
           /\ last' = Report("order_by", fields, r.result, cur, lists, 0, "ok", <<>>)
    /\ UNCHANGED <<lists, store, qvars, rec, held, fvars>>

\* cur.all()
All ==
    /\ cur # NoQuerySet
    /\ LET r == QuerySet_all(cur)
       IN  /\ cur' = r.self
           /\ last' = Report("all", <<>>, r.result, cur, lists, 0, "ok", <<>>)
    /\ UNCHANGED <<lists, store, qvars, rec, held, fvars>>

\* the caller goes on with the QuerySet the last call returned
Advance ==
    /\ last.new # NoQuerySet
    /\ cur' = last.new
    /\ last' = Report("advance", <<>>, NoQuerySet, cur, lists, 0, "ok", <<>>)
    /\ UNCHANGED <<lists, store, qvars, rec, held, fvars>>

\* cur.prefetch_related(rel): the name is appended to the list object and
\* the receiver itself is returned
PrefetchRelated(rel) ==
    /\ cur # NoQuerySet
    /\ lists' = [lists EXCEPT ![cur._prefetch_rel] =
                    IF rel \in Range(@) THEN @ ELSE Append(@, rel)]
    /\ last' = Report("prefetch_related", <<rel>>, NoQuerySet, cur, lists, 0,
                      "ok", <<>>)
    /\ UNCHANGED <<cur, store, qvars, rec, held, fvars>>

\* iter(cur): QuerySet.__iter__ calls _fetch_all, which does nothing when
\* the cache is already filled
FetchAll ==
    /\ cur # NoQuerySet
    /\ \E f \in {_fetch_all(store, cur.feature_class, lists[cur.fields],
                           cur._where, cur._order_by, lists[cur._prefetch_rel])} :
           IF cur._cache.fetched
           THEN /\ last' = Report("fetch", <<>>, NoQuerySet, cur, lists, 0, "ok",
                                  cur._cache.records)
                /\ UNCHANGED cur
           ELSE /\ cur' = [cur EXCEPT
                             !._cache = [fetched |-> TRUE, records |-> f.cache],
                             !.batch_rels = Range(lists[cur._prefetch_rel])]
                /\ last' = Report("fetch", <<>>, NoQuerySet, cur, lists,
                                  f.queries, f.outcome, f.cache)
    /\ UNCHANGED <<lists, store, qvars, rec, held, fvars>>

\* cur.get(*args, **kwargs)
Get(args, kwargs) ==
    /\ cur # NoQuerySet
    /\ \E g \in {QuerySet_get(store, cur, lists, args, kwargs)} :
           last' = Report("get", [args |-> args, kwargs |-> kwargs], NoQuerySet,
                          cur, lists, g.queries, g.outcome, g.result)
    /\ UNCHANGED <<cur, lists, store, qvars, rec, held, fvars>>

\* list(record.widget_set) for the k-th record of the fetched cur
ReadRelated(k) ==
    /\ cur # NoQuerySet
    /\ cur._cache.fetched
    /\ k \in 1..Len(cur._cache.records)
    /\ \E r \in {RelatedManager_get(store, cur._cache.records[k],
                                   RelatedManagers(cur.feature_class)["widget_set"])} :
           last' = Report("read_related", <<k>>, NoQuerySet, cur, lists,
                          r.queries, r.outcome, r.cache)
    /\ UNCHANGED <<cur, lists, store, qvars, rec, held, fvars>>

\* the caller keeps cur and goes on with the clone the last call returned
Hold ==
    /\ last.new # NoQuerySet
    /\ held = NoQuerySet
    /\ held' = cur
    /\ cur' = last.new
    /\ last' = Report("hold", <<>>, NoQuerySet, cur, lists, 0, "ok", <<>>)
    /\ UNCHANGED <<lists, store, qvars, rec, fvars>>

\* the caller turns to the QuerySet it kept
Swap ==
    /\ held # NoQuerySet
    /\ held' = cur
    /\ cur' = held
    /\ last' = Report("swap", <<>>, NoQuerySet, cur, lists, 0, "ok", <<>>)
    /\ UNCHANGED <<lists, store, qvars, rec, fvars>>

\* cur.prefetch_deferred(field_name): the db name of the field is appended
\* to the list object query.fields; an unknown field raises AttributeError
PrefetchDeferred(field_name) ==
    /\ cur # NoQuerySet
    /\ IF field_name \in Range(FieldNames(cur.feature_class))
       THEN /\ lists' = [lists EXCEPT ![cur.fields] =
                           IF get_db_name(cur.feature_class, field_name) \in Range(@)
                           THEN @
                           ELSE Append(@, get_db_name(cur.feature_class, field_name))]
            /\ last' = Report("prefetch_deferred", <<field_name>>, NoQuerySet, cur,
                              lists, 0, "ok", <<>>)
       ELSE /\ last' = Report("prefetch_deferred", <<field_name>>, NoQuerySet, cur,
                              lists, 0, "AttributeError", <<>>)
            /\ UNCHANGED lists
    /\ UNCHANGED <<cur, store, qvars, rec, held, fvars>>

\* record.warehouse_id for the k-th record of the fetched cur
ReadForeignKey(k) ==
    /\ cur # NoQuerySet
    /\ cur._cache.fetched
    /\ k \in 1..Len(cur._cache.records)
    /\ "warehouse_id" \in DOMAIN ForeignKeys(cur.feature_class)
    /\ \E r \in {ForeignKey_get(store, cur._cache.records[k],
                                 ForeignKeys(cur.feature_class)["warehouse_id"])} :
           last' = Report("read_foreign_key", <<k>>, NoQuerySet, cur, lists,
                          r.queries, r.outcome, <<r.result>>)
    /\ UNCHANGED <<cur, lists, store, qvars, rec, held, fvars>>

\* Refining QuerySets over a fixed store.
InitQS ==
    /\ qa = QInitial
    /\ qb = QInitial
    /\ store = FixtureStore
    /\ lists = IdleLists
    /\ cur = NoQuerySet
    /\ last = NoReport
    /\ rec = NoRecord
    /\ held = NoQuerySet
    /\ scale = NoScale
    /\ field = PlainField
    /\ editor = ClosedEditor
    /\ objects = NoObjects

NextQS ==
    \/ Objects("Warehouse")
    \/ \E kwargs \in FilterKwargs : Filter(kwargs)
    \/ \E kwargs \in ExcludeKwargs : Exclude(kwargs)
    \/ \E fields \in OrderChoices : OrderBy(fields)
    \/ All
    \/ Advance
    \/ FetchAll

SpecQS == InitQS /\ [][NextQS]_vars

\* Fetching, getting and prefetching over the stores of the bounds.
InitPF ==
    /\ qa = QInitial
    /\ qb = QInitial
    /\ \E fks \in ForeignKeyChoices : store = StoreWith(fks)
    /\ lists = IdleLists
    /\ cur = NoQuerySet
    /\ last = NoReport
    /\ rec = NoRecord
    /\ held = NoQuerySet
    /\ scale = NoScale
    /\ field = PlainField
    /\ editor = ClosedEditor
    /\ objects = NoObjects

NextPF ==
    \/ Objects("Warehouse")
    \/ \E kwargs \in BatchKwargs : Filter(kwargs)
    \/ Advance
    \/ PrefetchRelated("widget_set")
    \/ FetchAll
    \/ \E g \in GetArgs : Get(g.args, g.kwargs)
    \/ \E k \in 1..2 : ReadRelated(k)

SpecPF == InitPF /\ [][NextPF]_vars

\* keyword arguments that narrow a batch of widgets
WidgetKwargs ==
    { <<Own(<<"OBJECTID">>, PyInt(1))>>, <<Own(<<"warehouse_id">>, PyInt(1))>> }

\* the foreign keys of the widgets of a store: either warehouse, or null
WidgetForeignKeys ==
    UNION {[1..n -> {PyInt(1), PyInt(2), PyNone}] : n \in 0..MaxWidgets}

\* QuerySets of widgets and their clones: prefetching the foreign key and
\* the deferred Shape field, over the stores of the bounds.
InitWg ==
    /\ qa = QInitial
    /\ qb = QInitial
    /\ \E fks \in WidgetForeignKeys : store = StoreWith(fks)
    /\ lists = IdleLists
    /\ cur = NoQuerySet
    /\ last = NoReport
    /\ rec = NoRecord
    /\ held = NoQuerySet
    /\ scale = NoScale
    /\ field = PlainField
    /\ editor = ClosedEditor
    /\ objects = NoObjects

NextWg ==
    \/ Objects("Widget")
    \/ \E kwargs \in WidgetKwargs : Filter(kwargs)
    \/ \E fields \in OrderChoices : OrderBy(fields)
    \/ All
    \/ Hold
    \/ Swap
    \/ PrefetchRelated("warehouse_id")
    \/ \E field_name \in {"Shape", "colour"} : PrefetchDeferred(field_name)
    \/ FetchAll
    \/ \E k \in 1..MaxWidgets : ReadForeignKey(k)

SpecWg == InitWg /\ [][NextWg]_vars

\* the rows of the relationship table: each links a warehouse to a widget
JoinChoices ==
    UNION {[1..n -> {[WarehouseID |-> PyInt(w), WidgetID |-> PyInt(g)] :
                        w \in 1..2, g \in 1..MaxWidgets}] : n \in 0..MaxJoins}

\* two warehouses, MaxWidgets widgets and the relationship table
StoreWithJoins(joins) ==
    ("Widget_Warehouse" :> [rows |-> joins, next |-> Len(joins) + 1])
    @@ StoreWith([i \in 1..MaxWidgets |-> PyNone])

\* Batches of warehouses fetched with the many-to-many relationship
\* widgets registered for prefetch, over the relationship tables of the
\* bounds.
InitMM ==
    /\ qa = QInitial
    /\ qb = QInitial
    /\ \E joins \in JoinChoices : store = StoreWithJoins(joins)
    /\ lists = IdleLists
    /\ cur = NoQuerySet
    /\ last = NoReport
    /\ rec = NoRecord
    /\ held = NoQuerySet
    /\ scale = NoScale
    /\ field = PlainField
    /\ editor = ClosedEditor
    /\ objects = NoObjects

NextMM ==
    \/ Objects("Warehouse")
    \/ \E kwargs \in BatchKwargs : Filter(kwargs)
    \/ Advance
    \/ PrefetchRelated("widgets")
    \/ FetchAll

SpecMM == InitMM /\ [][NextMM]_vars

(***************************************************************************)
(* Records as a state machine: a caller constructs or fetches a Widget,    *)
(* sets attributes and saves.                                              *)
(***************************************************************************)
\* an identity that no row of the store ever has
StaleOid == Len(FixtureStore.Widget.rows) + MaxInserts + 1

\* keyword arguments of the constructor
ConstructKwargs ==
    { [widget_number |-> PyInt(1)],
      [OBJECTID |-> PyNone, widget_number |-> PyInt(2), warehouse_id |-> PyInt(1)],
      [OBJECTID |-> PyInt(StaleOid), widget_number |-> PyInt(1)] }

\* rec = Widget(**kwargs)
Construct(kwargs) ==
    /\ rec' = Feature("Widget", kwargs)
    /\ last' = RecordReport("construct", kwargs, rec, store, <<>>, "ok", TRUE, last)
    /\ UNCHANGED <<store, lists, cur, qvars, held, fvars>>

\* rec = Widget.objects.get(OBJECTID=oid)
Fetch(oid) ==
    /\ \E g \in {QuerySet_get(store, NewQuerySet("Widget"),
                                <<MakeQueryFields("Widget"), <<>>>>, <<>>,
                                <<Own(<<"OBJECTID">>, PyInt(oid))>>)} :
           /\ rec' = IF g.outcome = "ok" THEN g.result[1] ELSE rec
           /\ last' = RecordReport("fetch", oid, rec, store, <<>>, g.outcome,
                                   g.outcome = "ok", last)
    /\ UNCHANGED <<store, lists, cur, qvars, held, fvars>>

\* rec.name = value
SetAttr(name, value) ==
    /\ rec # NoRecord
    /\ \E r \in {set_attribute(rec, name, value)} :
           /\ rec' = r.feature
           /\ last' = RecordReport("setattr", <<name, value>>, rec, store, <<>>,
                                   r.outcome, TRUE, last)
    /\ UNCHANGED <<store, lists, cur, qvars, held, fvars>>

\* rec.save()
Save ==
    /\ rec # NoRecord
    /\ getattr(rec, "OBJECTID") = PyNone =>
          store[rec.cls].next <= Len(FixtureStore[rec.cls].rows) + MaxInserts
    /\ \E r \in {save(store, rec)} :
           /\ rec' = r.feature
           /\ store' = r.tables
           /\ last' = RecordReport("save", <<>>, rec, store, r.writes, r.outcome,
                                   r.result, last)
    /\ UNCHANGED <<lists, cur, qvars, held, fvars>>

InitRec ==
    /\ qa = QInitial
    /\ qb = QInitial
    /\ store = FixtureStore
    /\ lists = IdleLists
    /\ cur = NoQuerySet
    /\ last = RecordReport("none", <<>>, NoRecord, FixtureStore, <<>>, "ok", TRUE,
                           [op |-> "none", outcome |-> "ok", result |-> TRUE])
    /\ rec = NoRecord
    /\ held = NoQuerySet
    /\ scale = NoScale
    /\ field = PlainField
    /\ editor = ClosedEditor
    /\ objects = NoObjects

NextRec ==
    \/ \E kwargs \in ConstructKwargs : Construct(kwargs)
    \/ \E oid \in 1..Len(FixtureStore.Widget.rows) : Fetch(oid)
    \/ \E value \in {PyInt(1), PyInt(2)} : SetAttr("widget_number", value)
    \/ SetAttr("OBJECTID", PyNone)
    \/ Save

SpecRec == InitRec /\ [][NextRec]_vars

\* rec = Widget.objects.prefetch_deferred(*names).prefetch_related(*rels)
\*           .get(OBJECTID=oid)
FetchWith(oid, names, rels) ==
    /\ \E fields \in {MakeQueryFields("Widget")
                        \o [j \in 1..Len(names) |-> get_db_name("Widget", names[j])]} :
       \E g \in {QuerySet_get(store, NewQuerySet("Widget"), <<fields, rels>>,
                               <<>>, <<Own(<<"OBJECTID">>, PyInt(oid))>>)} :
           /\ rec' = IF g.outcome = "ok" THEN g.result[1] ELSE rec
           /\ last' = RecordReport("fetch", [oid |-> oid, fields |-> fields],
                                   rec, store, <<>>, g.outcome,
                                   [value |-> PyNone, queries |-> g.queries], last)
    /\ UNCHANGED <<store, lists, cur, qvars, held, fvars>>

\* rec.name, for a field that is neither a relationship nor calculated
Read(name) ==
    /\ rec # NoRecord
    /\ \E r \in {BaseField_get(store, rec, name)} :
           /\ rec' = r.feature
           /\ last' = RecordReport("read", <<name>>, rec, store, <<>>, r.outcome,
                                   [value |-> r.value, queries |-> r.queries], last)
    /\ UNCHANGED <<store, lists, cur, qvars, held, fvars>>

\* the values assigned to the foreign key: keys, None and a warehouse record
KeyValues ==
    {PyInt(1), PyInt(2), PyNone,
     Feature("Warehouse", [OBJECTID |-> PyInt(2), warehouse_zipcode |-> PyInt(2)])}

\* Attribute reads and assignments on the widgets of the fixture, fetched
\* with and without the deferred Shape and the prefetched warehouse.
InitAttr ==
    /\ qa = QInitial
    /\ qb = QInitial
    /\ store = FixtureStore
    /\ lists = IdleLists
    /\ cur = NoQuerySet
    /\ last = RecordReport("none", <<>>, NoRecord, store, <<>>, "ok",
                           [value |-> PyNone, queries |-> 0],
                           [op |-> "none", outcome |-> "ok",
                            result |-> [value |-> PyNone, queries |-> 0]])
    /\ rec = NoRecord
    /\ held = NoQuerySet
    /\ scale = NoScale
    /\ field = PlainField
    /\ editor = ClosedEditor
    /\ objects = NoObjects

NextAttr ==
    \/ \E oid \in 1..Len(FixtureStore.Widget.rows), names \in {<<>>, <<"Shape">>},
          rels \in {<<>>, <<"warehouse_id">>} : FetchWith(oid, names, rels)
    \/ \E name \in {"widget_number", "Shape"} : Read(name)
    \/ \E value \in {PyInt(1), PyInt(2)} : SetAttr("widget_number", value)
    \/ \E value \in KeyValues : SetAttr("warehouse_id", value)
    \/ \E name \in DOMAIN CalculatedFields : SetAttr(name, PyInt(1))

SpecAttr == InitAttr /\ [][NextAttr]_vars

\* Changing and saving the widgets of the fixture, fetched with and
\* without the deferred Shape.
NextSave ==
    \/ \E oid \in 1..Len(FixtureStore.Widget.rows), names \in {<<>>, <<"Shape">>} :
          FetchWith(oid, names, <<>>)
    \/ Read("Shape")
    \/ \E name \in {"widget_number", "Shape"}, value \in {PyInt(1), PyInt(2)} :
          SetAttr(name, value)
    \/ Save

SpecSave == InitAttr /\ [][NextSave]_vars

(***************************************************************************)
(* Fields and scales as a state machine: a caller has a BreaksScale and    *)
(* scores values with it, or has a field and asks whether a value changed. *)
(***************************************************************************)
\* the sequences a caller gives as breaks
BreakSeqs == UNION {[1..n -> {PyInt(b) : b \in 1..MaxBreak}] : n \in 0..MaxBreak}

\* the scale of tests/test_scales.py written with the numbers 100, 500, 1000
ExampleBreaks == <<PyInt(100), PyInt(500), PyInt(1000)>>

\* the scales that BreaksScale.__init__ accepts: breaks in sorted order,
\* and the levels 1, 2, ... one more than the breaks
BreaksScales ==
    { sc \in { BreaksScale(b, [i \in 1..(Len(b) + 1) |-> PyInt(i)], r) :
                  b \in BreakSeqs \cup {ExampleBreaks}, r \in BOOLEAN } :
        sc.outcome = "ok" }

\* the values that are scored
ScoreValues ==
    {PyInt(v) : v \in (0..(MaxBreak + 1)) \cup {50, 100, 101, 1000, 5000}}
    \cup {Inf}

\* the fields: no storage scale, or a scale of 2 or 3 places
ScaledFields == {[db_scale |-> d] : d \in {PyNone, PyInt(2), PyInt(3)}}

\* the values a field compares: None and floats from 1.0 upwards that no
\* rounding to 2 or 3 places finds half way, and 1.02
FieldValues ==
    {PyNone, PyFloat(10200)} \cup {PyFloat(10000 + 2 * j) : j \in 0..MaxSteps}

\* scale.score(value)
Score(value) ==
    /\ scale # NoScale
    /\ last' = [op |-> "score", args |-> <<value>>, result |-> score(scale, value)]
    /\ UNCHANGED <<store, lists, cur, rec, qvars, held, fvars>>

\* field.has_changed(old, new)
HasChanged(old, new) ==
    /\ scale = NoScale
    /\ last' = [op |-> "has_changed", args |-> <<old, new>>,
                result |-> has_changed(field, old, new)]
    /\ UNCHANGED <<store, lists, cur, rec, qvars, held, fvars>>

InitFld ==
    /\ qa = QInitial
    /\ qb = QInitial
    /\ store = IdleStore
    /\ lists = IdleLists
    /\ cur = NoQuerySet
    /\ last = [op |-> "none", args |-> <<>>, result |-> FALSE]
    /\ rec = NoRecord
    /\ held = NoQuerySet
    /\ \/ scale \in BreaksScales /\ field = PlainField
       \/ scale = NoScale /\ field \in ScaledFields
    /\ editor = ClosedEditor
    /\ objects = NoObjects

NextFld ==
    \/ \E value \in ScoreValues : Score(value)
    \/ \E old, new \in FieldValues : HasChanged(old, new)

SpecFld == InitFld /\ [][NextFld]_vars

(***************************************************************************)
(* Calculated fields of widgets: the declaration under test is `field`,    *)
(* read and summarized on the record the caller holds and on the records   *)
(* of Widget.objects.                                                      *)
(***************************************************************************)
DerivedField(kind, condition, default, sc, value_field, weights) ==
    [kind |-> kind, condition |-> condition, default |-> default, scale |-> sc,
     value_field |-> value_field, weights |-> weights, db_scale |-> PyNone]

\* BreaksScale([100, 500, 1000], [1, 2, 3, 4]) of tests/base.py:153
WidgetScale ==
    BreaksScale(ExampleBreaks, <<PyInt(1), PyInt(2), PyInt(3), PyInt(4)>>, TRUE)

\* a scale of named levels for the widget numbers 50 and 100; two levels
\* share a value
NamedScale ==
    DictScale(<<<<PyInt(50), ScaleLevel(PyInt(1), "low", <<0>>)>>,
                <<PyInt(100), ScaleLevel(PyInt(1), "high", <<0>>)>>,
                <<PyInt(2000), ScaleLevel(PyInt(2), "high", <<0>>)>>>>, PyInt(0))

\* widget_number_score of tests/base.py:151-155
widget_number_score ==
    DerivedField("ScaleField", NoCondition, PyNone, OneScale(WidgetScale),
                 Attr("widget_number"), <<>>)

\* weights_field of tests/test_fields.py:21-24 over widget_number
weights_field ==
    DerivedField("WeightsField", NoCondition, PyInt(0), NoScaleArg,
                 Attr("widget_number"),
                 <<<<"widget_number", PyFloat(2500)>>,
                   <<"double_method", PyFloat(7500)>>>>)

\* the declarations: the two of the fixtures, widget_number_score with a
\* condition, with a DictScale and with a list of conditional scales, and
\* a weights field with whole weights, a scale and a condition
DerivedFields ==
    {widget_number_score,
     weights_field,
     DerivedField("ScaleField", Expr("widget_number", ">", PyInt(50)), PyInt(0),
                  OneScale(WidgetScale), Attr("widget_number"), <<>>),
     DerivedField("ScaleField", NoCondition, PyNone, OneScale(NamedScale),
                  Attr("widget_number"), <<>>),
     DerivedField("ScaleField", NoCondition, PyNone,
                  ScaleList(<<ScaleInfo(Expr("widget_number", ">", PyInt(100)),
                                        WidgetScale, 0, 2),
                              ScaleInfo(Expr("widget_number", "is not", PyNone),
                                        NamedScale, 0, 2)>>),
                  Attr("widget_number"), <<>>),
     DerivedField("WeightsField", Expr("widget_number", ">", PyInt(50)), PyInt(0),
                  OneScale(WidgetScale), Attr("widget_number"),
                  <<<<"widget_number", PyInt(1)>>, <<"double_method", PyInt(2)>>>>)}

\* the widget numbers of the stores and of the assignments
StoredNumbers == {PyNone, PyInt(100), PyInt(2000)}

WidgetNumbers == {PyNone, PyInt(50), PyInt(100)}

NumberChoices == UNION {[1..n -> StoredNumbers] : n \in 1..MaxWidgets}

StoreOfNumbers(numbers) ==
    [Warehouse |-> [rows |-> WarehouseRows, next |-> 3],
     Widget |-> [rows |-> [i \in 1..Len(numbers) |->
                              WidgetRow(i, numbers[i], PyNone, PyInt(10 + i))],
                 next |-> Len(numbers) + 1]]

\* rec.<field>
ReadCalculated ==
    /\ rec # NoRecord
    /\ last' = RecordReport("read_calculated", <<>>, rec, store, <<>>, "ok",
                            [value |-> CalculatedField_get(field, rec),
                             queries |-> 0], last)
    /\ UNCHANGED <<store, lists, cur, qvars, rec, held, fvars>>

\* <field>.summarize(rec)
Summarize ==
    /\ rec # NoRecord
    /\ \E s \in {summarize(field, rec)} :
           last' = RecordReport("summarize", <<>>, rec, store, <<>>, s.outcome,
                                [value |-> s.level, queries |-> 0], last)
    /\ UNCHANGED <<store, lists, cur, qvars, rec, held, fvars>>

\* <field>.get_levels()
GetLevels ==
    /\ \E l \in {get_levels(field)} :
           last' = RecordReport("get_levels", <<>>, rec, store, <<>>, l.outcome,
                                [value |-> l.levels, queries |-> 0], last)
    /\ UNCHANGED <<store, lists, cur, qvars, rec, held, fvars>>

\* Widget.objects.summarize(<field>)
SummarizeAll ==
    /\ \E f \in {_fetch_all(store, "Widget", MakeQueryFields("Widget"),
                           NewQuerySet("Widget")._where,
                           NewQuerySet("Widget")._order_by, <<>>)} :
       \E s \in {QuerySet_summarize(field, f.cache)} :
           last' = RecordReport("summarize_all", <<>>, rec, store, <<>>,
                                s.outcome,
                                [value |-> s.result, queries |-> f.queries], last)
    /\ UNCHANGED <<store, lists, cur, qvars, rec, held, fvars>>

InitCalc ==
    /\ qa = QInitial
    /\ qb = QInitial
    /\ store \in {StoreOfNumbers(numbers) : numbers \in NumberChoices}
    /\ lists = IdleLists
    /\ cur = NoQuerySet
    /\ last = RecordReport("none", <<>>, NoRecord, store, <<>>, "ok",
                           [value |-> PyNone, queries |-> 0],
                           [op |-> "none", outcome |-> "ok",
                            result |-> [value |-> PyNone, queries |-> 0]])
    /\ rec = NoRecord
    /\ held = NoQuerySet
    /\ scale = NoScale
    /\ field \in DerivedFields
    /\ editor = ClosedEditor
    /\ objects = NoObjects

NextCalc ==
    \/ \E oid \in 1..MaxWidgets : oid <= Len(store.Widget.rows)
                                  /\ FetchWith(oid, <<>>, <<>>)
    \/ \E value \in WidgetNumbers : SetAttr("widget_number", value)
    \/ ReadCalculated
    \/ Summarize
    \/ GetLevels
    \/ SummarizeAll

SpecCalc == InitCalc /\ [][NextCalc]_vars

(***************************************************************************)
(* Validation of widgets built by the caller, whose Shape may still be a   *)
(* deferred placeholder.                                                   *)
(***************************************************************************)
ValidatedValues ==
    [OBJECTID : {PyInt(1)},
     widget_description : {PyNone},
     widget_number : {PyNone, PyInt(5)},
     widget_available : {PyNone, PyInt(0), Yes, PyInt(7)},
     widget_price : {PyNone, PyInt(20)},
     warehouse_id : {PyNone},
     Shape : {DeferredValue("Shape", "SHAPE@"), PyNone, PyInt(11)},
     base_field : {PyNone, PyInt(1), PyInt(3)},
     numeric_field : {PyNone, PyInt(5), PyInt(11)}]

\* rec.name = value for a field that holds numbers
Assign(name, value) ==
    /\ \E r \in {set_attribute(rec, name, value)} :
           /\ rec' = r.feature
           /\ last' = [op |-> "setattr", args |-> <<name>>,
                       result |-> [outcome |-> r.outcome, messages |-> <<>>]]
    /\ UNCHANGED <<store, lists, cur, qvars, held, fvars>>

\* rec.validate()
Validate ==
    /\ last' = [op |-> "validate", args |-> <<>>,
                result |-> [outcome |-> "ok", messages |-> validate(rec)]]
    /\ UNCHANGED <<store, lists, cur, qvars, rec, held, fvars>>

InitVal ==
    /\ qa = QInitial
    /\ qb = QInitial
    /\ store = IdleStore
    /\ lists = IdleLists
    /\ cur = NoQuerySet
    /\ last = [op |-> "none", args |-> <<>>,
               result |-> [outcome |-> "ok", messages |-> <<>>]]
    /\ rec \in {Feature("Widget", kwargs) : kwargs \in ValidatedValues}
    /\ held = NoQuerySet
    /\ scale = NoScale
    /\ field = PlainField
    /\ editor = ClosedEditor
    /\ objects = NoObjects

NextVal ==
    \/ \E name \in {"widget_available", "widget_price", "Shape"},
          value \in {PyNone, Yes, PyInt(20)} : Assign(name, value)
    \/ Validate

SpecVal == InitVal /\ [][NextVal]_vars

(***************************************************************************)
(* Edit sessions.  The editor is arcpy.da.Editor: startEditing opens a     *)
(* session and stopEditing closes it, saving the edits of the session or   *)
(* dropping them.  What the editor does when a session is begun while one  *)
(* is open is not in the source, so every call starts from a closed one.   *)
(***************************************************************************)
\* the state of the editor after a call of one of its methods
Editor_call(self, method) ==
    CASE method = "startEditing" -> [self EXCEPT !.editing = TRUE]
      [] method = "startOperation" -> [self EXCEPT !.operation = TRUE]
      [] method \in {"stopOperation", "abortOperation"} ->
            [self EXCEPT !.operation = FALSE]
      [] method \in {"stopEditing(True)", "stopEditing(False)"} ->
            [self EXCEPT !.editing = FALSE]

\* the state of the editor after a sequence of calls
RECURSIVE Editor_calls(_, _)
Editor_calls(self, methods) ==
    IF methods = <<>> THEN self
    ELSE Editor_calls(Editor_call(self, Head(methods)), Tail(methods))

\* Workspace.insert_row with the session around the insert: InsertCursor
\* and insertRow raise for a row that does not fit the field names
Workspace_insert_row(tables, self, layer_name, field_names, values) ==
    IF Len(values) # Len(field_names)
    THEN [tables |-> tables, calls |-> <<"startEditing">>,
          editor |-> Editor_calls(self, <<"startEditing">>),
          outcome |-> "TypeError"]
    ELSE [tables |-> insert_row(tables, layer_name,
                        [c \in Range(field_names) |->
                            values[CHOOSE i \in 1..Len(field_names) :
                                       field_names[i] = c]]).tables,
          calls |-> <<"startEditing", "stopEditing(True)">>,
          editor |-> Editor_calls(self, <<"startEditing", "stopEditing(True)">>),
          outcome |-> "ok"]

\* with workspace.edit(versioned): <body>, where body is the tables after
\* the writes of the enclosed block and the exception it raised, or "ok"
Workspace_edit(tables, self, versioned, body) ==
    LET begin == <<"startEditing">>
                 \o (IF versioned THEN <<"startOperation">> ELSE <<>>)
        commit == (IF versioned THEN <<"stopOperation">> ELSE <<>>)
                  \o <<"stopEditing(True)">>
        abort == (IF versioned THEN <<"abortOperation">> ELSE <<>>)
                 \o <<"stopEditing(False)">>
        calls == begin \o (IF body.outcome = "ok" THEN commit ELSE abort)
    IN  [tables |-> IF body.outcome = "ok" THEN body.tables ELSE tables,
         calls |-> calls,
         editor |-> Editor_calls(self, calls),
         outcome |-> body.outcome]

\* the block of tests.py:322-326: every row of the layer is updated through
\* an update cursor; update_row raises TypeError for any other cursor, here
\* at the row `fails` (0: at no row)
UpdateEveryRow(tables, layer_name, value, fails) ==
    [tables |-> [tables EXCEPT ![layer_name].rows =
                    [oid \in DOMAIN @ |->
                        IF fails = 0 \/ oid < fails
                        THEN [@[oid] EXCEPT !["widget_number"] = value]
                        ELSE @[oid]]],
     outcome |-> IF fails = 0 THEN "ok" ELSE "TypeError"]

\* workspace.insert_row('Widget', field_names, values)
InsertRow(field_names, values) ==
    /\ ~editor.editing
    /\ store.Widget.next <= MaxWidgets + MaxInserts
    /\ \E r \in {Workspace_insert_row(store, editor, "Widget", field_names, values)} :
           /\ store' = r.tables
           /\ editor' = r.editor
           /\ last' = [op |-> "insert_row", args |-> <<field_names, values>>,
                       outcome |-> r.outcome, calls |-> r.calls]
    /\ UNCHANGED <<lists, cur, qvars, rec, held, scale, field, objects>>

\* with workspace.edit(versioned): update every widget
Edit(versioned, value, fails) ==
    /\ ~editor.editing
    /\ fails < store.Widget.next
    /\ \E r \in {Workspace_edit(store, editor, versioned,
                     UpdateEveryRow(store, "Widget", value, fails))} :
           /\ store' = r.tables
           /\ editor' = r.editor
           /\ last' = [op |-> "edit", args |-> <<versioned, value, fails>>,
                       outcome |-> r.outcome, calls |-> r.calls]
    /\ UNCHANGED <<lists, cur, qvars, rec, held, scale, field, objects>>

\* the rows given to insert_row: one that fits the field names and one
\* with a value too many
InsertedRows ==
    {<<PyInt(n)>> : n \in 1..2} \cup {<<PyInt(1), PyInt(2)>>}

InitEdit ==
    /\ qa = QInitial
    /\ qb = QInitial
    /\ store = FixtureStore
    /\ lists = IdleLists
    /\ cur = NoQuerySet
    /\ last = [op |-> "none", args |-> <<>>, outcome |-> "ok", calls |-> <<>>]
    /\ rec = NoRecord
    /\ held = NoQuerySet
    /\ scale = NoScale
    /\ field = PlainField
    /\ editor = ClosedEditor
    /\ objects = NoObjects

NextEdit ==
    \/ \E values \in InsertedRows : InsertRow(<<"widget_number">>, values)
    \/ \E versioned \in BOOLEAN, value \in {PyInt(1), PyInt(2), PyInt(3)},
          fails \in 0..(MaxWidgets + MaxInserts) : Edit(versioned, value, fails)

SpecEdit == InitEdit /\ [][NextEdit]_vars

(***************************************************************************)
(* Q objects held in variables: a caller makes them from filters, combines *)
(* them with &, | and ~, and simplifies and compiles them.  A variable     *)
(* keeps the object, the tree it had when it was bound, and the call that  *)
(* made it.                                                                *)
(***************************************************************************)
Bound(made, by) ==
    [id |-> made.id, tree |-> Tree(made.objs, made.id), by |-> by]

\* a call that returns the object `made`, bound to a new variable
Bind(op, args, made) ==
    /\ objects' = [objs |-> made.objs,
                names |-> Append(objects.names, Bound(made, op)),
                calls |-> objects.calls + 1]
    /\ last' = [op |-> op, args |-> args, result |-> made.id,
                before |-> Len(objects.objs)]
    /\ UNCHANGED <<qvars, store, lists, cur, rec, held, scale, field, editor>>

\* a call whose result the caller does not keep
Call(op, args, made) ==
    /\ objects' = [objects EXCEPT !.objs = made.objs, !.calls = @ + 1]
    /\ last' = [op |-> op, args |-> args, result |-> made.id,
                before |-> Len(objects.objs)]
    /\ UNCHANGED <<qvars, store, lists, cur, rec, held, scale, field, editor>>

\* v = Q(**pairs)
ObjNew(ps) ==
    /\ objects.calls < MaxCalls
    /\ Len(objects.names) < MaxKept
    /\ Bind("new", <<>>, Heap_store(objects.objs, Q(ps)))

\* v = a & b   or   v = a | b
ObjCombine(a, b, op) ==
    /\ objects.calls < MaxCalls
    /\ Len(objects.names) < MaxKept
    /\ Bind(op, <<a, b>>,
            Heap_combine(objects.objs, objects.names[a].id, objects.names[b].id, op))

\* v = ~a
ObjInvert(a) ==
    /\ objects.calls < MaxCalls
    /\ Len(objects.names) < MaxKept
    /\ Bind("invert", <<a>>, Heap_invert(objects.objs, objects.names[a].id))

\* a.simplify()
ObjSimplify(a) ==
    /\ objects.calls < MaxCalls
    /\ Call("simplify", <<a>>, Heap_simplify(objects.objs, objects.names[a].id))

\* SQLCompiler(Warehouse).compile(a)
ObjCompile(a) ==
    /\ objects.calls < MaxCalls
    /\ Call("compile", <<a>>,
            [objs |-> Heap_compile(objects.objs, objects.names[a].id), id |-> 0])

InitObj ==
    /\ qa = QInitial
    /\ qb = QInitial
    /\ store = IdleStore
    /\ lists = IdleLists
    /\ cur = NoQuerySet
    /\ last = [op |-> "none", args |-> <<>>, result |-> 0, before |-> 0]
    /\ rec = NoRecord
    /\ held = NoQuerySet
    /\ scale = NoScale
    /\ field = PlainField
    /\ editor = ClosedEditor
    /\ objects = NoObjects

NextObj ==
    \/ \E ps \in OperandPairs : ObjNew(ps)
    \/ \E a, b \in 1..MaxKept, op \in {"AND", "OR"} :
           a <= Len(objects.names) /\ b <= Len(objects.names) /\ ObjCombine(a, b, op)
    \/ \E a \in 1..MaxKept : a <= Len(objects.names) /\ ObjInvert(a)
    \/ \E a \in 1..MaxKept : a <= Len(objects.names) /\ ObjSimplify(a)
    \/ \E a \in 1..MaxKept : a <= Len(objects.names) /\ ObjCompile(a)

SpecObj == InitObj /\ [][NextObj]_vars

(***************************************************************************)
(* Properties of the condition algebra and of the compiler.                *)
(***************************************************************************)
\* C1: simplify is idempotent: for every tree that can be constructed,
\* simplifying the simplified tree gives a structurally equal tree.
SimplifyIdempotent == simplify(simplify(qa)) = simplify(qa)

\* qa is ~(A & B) for two non-empty conditions A and B
IsNegatedConjunction(q) ==
    /\ q.negated /\ q.rel_name = None /\ q.operator = "AND"
    /\ Len(q.children) = 2
    /\ IsQ(q.children[1]) /\ QLen(q.children[1]) > 0
    /\ IsQ(q.children[2]) /\ QLen(q.children[2]) > 0

\* qa is ~A for a single comparison A on the queried table
IsNegatedComparison(q) ==
    /\ q.negated /\ q.rel_name = None
    /\ Len(q.children) = 1
    /\ ~IsQ(q.children[1])

\* C3: ~(A & B) compiles as NOT (<A> AND <B>), the conjunction in
\* parentheses, and ~A for a single comparison A compiles as NOT <A>
\* without parentheses.
NegationCompiled ==
    /\ IsNegatedConjunction(qa) =>
          compile("Warehouse", qa, FALSE) =
              <<"NOT", "(">> \o compile("Warehouse", qa.children[1], FALSE)
                  \o <<"AND">> \o compile("Warehouse", qa.children[2], FALSE)
                  \o <<")">>
    /\ IsNegatedComparison(qa) =>
          compile("Warehouse", qa, FALSE) =
              <<"NOT">> \o _compile_sql_condition(qa.children[1], "Warehouse")

\* Every group that compile renders for q0 and for the groups below it:
\* a negated group starts with NOT, and an OR group or negated group of
\* more than one part is enclosed in parentheses.
RECURSIVE GroupsParenthesized(_, _)
GroupsParenthesized(feature_class, q0) ==
    LET q == simplify(q0)
        rel == _resolve_rel(feature_class, q.rel_name)
        text == compile(feature_class, q0, FALSE)
        where == IF rel.self_key # None THEN SubSeq(text, 9, Len(text) - 1)
                                        ELSE text
        group == IF q.negated /\ where # <<>> THEN Tail(where) ELSE where
    IN  /\ q.negated => (where # <<>> /\ Head(where) = "NOT")
        /\ ((q.operator = "OR" \/ q.negated) /\ Len(q.children) > 1) =>
              (Len(group) >= 2 /\ Head(group) = "(" /\ group[Len(group)] = ")")
        /\ \A i \in 1..Len(q.children) :
              IsQ(q.children[i]) =>
                  GroupsParenthesized(rel.feature_class, q.children[i])

\* no Q object of the tree is without children
RECURSIVE NoEmptyGroup(_)
NoEmptyGroup(c) ==
    IsQ(c) => /\ c.children # <<>>
              /\ \A i \in 1..Len(c.children) : NoEmptyGroup(c.children[i])

\* C4: in compiled output every OR group and every negated group that
\* renders more than one part is wrapped in parentheses, wherever it
\* occurs, and every negated group is prefixed with NOT.
CompiledGroupsParenthesized ==
    NoEmptyGroup(qa) => GroupsParenthesized("Warehouse", qa)

(***************************************************************************)
(* Properties of QuerySets.                                                *)
(***************************************************************************)
CountTok(ts, tok) == Cardinality({i \in 1..Len(ts) : ts[i] = tok})

\* every keyword argument is scoped to the relationship widget_set
AllOnWidgetSet(kwargs) ==
    /\ kwargs # <<>>
    /\ \A i \in 1..Len(kwargs) : kwargs[i].field_info[1] = "widget_set"

\* qs was built from the manager by two filter calls, both with all their
\* conditions on the relationship widget_set
TwoFiltersOnWidgetSet(qs) ==
    /\ qs # NoQuerySet
    /\ Len(qs.history) = 2
    /\ \A i \in 1..2 : /\ qs.history[i].op = "filter"
                       /\ AllOnWidgetSet(qs.history[i].kwargs)

\* C2: two filter calls whose conditions are on the same relationship
\* scope compile to a where clause with exactly one sub-select on the
\* related table, which holds the comparisons joined by AND.
TwoFiltersOneSubSelect ==
    TwoFiltersOnWidgetSet(last.new) =>
        LET where == QueryWhere("Warehouse", last.new._where)
        IN  /\ CountTok(where, "SELECT") = 1
            /\ SubSeq(where, 1, 8) = <<"OBJECTID", "IN", "(", "SELECT",
                                       "warehouse_id", "FROM", "Widget", "WHERE">>
            /\ where[Len(where)] = ")"

\* the truth value of a condition tree on the queried table for a row, by
\* the meaning of its parts: a comparison compares the row's column, a Q
\* joins its children with its operator and is negated as a whole
RECURSIVE Matches3(_, _, _)
RECURSIVE MatchesAll3(_, _, _, _)
Matches3(cls, c, row) ==
    IF ~IsQ(c)
    THEN Compare3(row[get_db_name(cls, c.field_name)], c.operator,
                  _to_string(c.value)[1])
    ELSE LET v == MatchesAll3(cls, c.children, c.operator, row)
         IN  IF c.negated THEN Not3(v) ELSE v

MatchesAll3(cls, children, operator, row) ==
    LET present == SelectSeq(children, LAMBDA c : ~IsQ(c) \/ c.children # <<>>)
    IN  IF present = <<>> THEN "T"
        ELSE IF Len(present) = 1 THEN Matches3(cls, present[1], row)
        ELSE LET a == Matches3(cls, present[1], row)
                 b == MatchesAll3(cls, Tail(present), operator, row)
             IN  IF operator = "OR" THEN Or3(a, b) ELSE And3(a, b)

\* the OIDs of the rows that match the receiver's condition and the
\* filter given to get
GetMatches ==
    LET cls == last.before.feature_class
        rows == store[cls].rows
    IN  {o \in DOMAIN rows :
            /\ last.before._where # NoQ =>
                  Matches3(cls, last.before._where, rows[o]) = "T"
            /\ \A i \in 1..Len(last.args.args) :
                  Matches3(cls, last.args.args[i], rows[o]) = "T"
            /\ Matches3(cls, Q(last.args.kwargs), rows[o]) = "T"}

\* C5: get returns the matching record when exactly one row of the store
\* matches the filter, raises ObjectDoesNotExist when no row matches and
\* MultipleObjectsReturned when more than one row matches.
GetExactlyOne ==
    last.op = "get" =>
        LET n == Cardinality(GetMatches)
        IN  /\ n = 0 => last.outcome = "ObjectDoesNotExist"
            /\ n > 1 => last.outcome = "MultipleObjectsReturned"
            /\ n = 1 => /\ last.outcome = "ok"
                        /\ Len(last.result) = 1
                        /\ getattr(last.result[1], "OBJECTID").val \in GetMatches

\* the batch of cur was fetched while widget_set was registered for prefetch
PrefetchedBatch == cur # NoQuerySet /\ "widget_set" \in cur.batch_rels

\* the last call filled the cache of cur
FilledCache == last.op = "fetch" /\ ~last.before._cache.fetched

\* C6 as stated: prefetching a to-many relationship for a fetched batch of
\* N parents issues exactly one additional store query regardless of N;
\* reading the relationship on a parent of the batch then issues no query;
\* without prefetch each read issues one query.
PrefetchOneQueryAnyBatch ==
    /\ FilledCache =>
          last.queries = IF PrefetchedBatch THEN 2 ELSE 1
    /\ last.op = "read_related" =>
          last.queries = IF PrefetchedBatch THEN 0 ELSE 1

\* C6: prefetching a to-many relationship for a fetched batch of N >= 1
\* parents issues exactly one additional store query regardless of N, and
\* none for an empty batch; reading the relationship on a parent of the
\* batch, with or without children, then issues no query; without prefetch
\* each read issues one query.
PrefetchOneQuery ==
    /\ FilledCache =>
          last.queries = IF PrefetchedBatch /\ cur._cache.records # <<>>
                         THEN 2 ELSE 1
    /\ last.op = "read_related" =>
          last.queries = IF PrefetchedBatch THEN 0 ELSE 1

\* a prefetched batch of two parents, and the relationship of the parent
\* without children has just been read
PrefetchOneQueryWitness ==
    /\ last.op = "read_related"
    /\ PrefetchedBatch
    /\ Len(cur._cache.records) = 2
    /\ last.result = <<>>
    /\ last.queries = 0

\* C10: filter, exclude and order_by leave the receiver unchanged, its
\* condition, ordering and cache and the list objects it refers to are
\* what they were before the call, and the QuerySet returned is unfetched.
RefineLeavesReceiver ==
    last.op \in {"filter", "exclude", "order_by"} =>
        /\ cur = last.before
        /\ lists = last.lists
        /\ last.new # NoQuerySet
        /\ last.new._cache = NoCache

\* filter has just been called on a QuerySet that was fetched with records
RefineLeavesReceiverWitness ==
    /\ last.op = "filter"
    /\ cur._cache.fetched
    /\ cur._cache.records # <<>>
    /\ last.new._where # cur._where

(***************************************************************************)
(* Properties of saving records.                                           *)
(***************************************************************************)
\* the last call was save on a record whose identity was null
SavedWithoutIdentity ==
    last.op = "save" /\ getattr(last.before, "OBJECTID") = PyNone

\* C7: save on a record whose identity is null performs exactly one
\* insert, which excludes the identity column, sets the record's identity
\* to the value the store generated, folds the inserted values and the new
\* identity into the snapshot, and returns true.
SaveInserts ==
    SavedWithoutIdentity =>
        LET cls == last.before.cls
            before == last.tables[cls]
            after == store[cls]
            sent == serialize(last.before)
        IN  /\ last.outcome = "ok"
            /\ last.result = TRUE
            /\ Len(last.writes) = 1
            /\ last.writes[1].op = "insert"
            /\ "OBJECTID" \notin last.writes[1].fields
            /\ last.writes[1].fields = DOMAIN sent \ {"OBJECTID"}
            /\ last.writes[1].oid = before.next
            /\ DOMAIN after.rows = DOMAIN before.rows \cup {before.next}
            /\ \A o \in DOMAIN before.rows : after.rows[o] = before.rows[o]
            /\ getattr(rec, "OBJECTID") = PyInt(before.next)
            /\ last.writes[1].fields \cup {"OBJECTID"} \subseteq DOMAIN rec.db_values
            /\ rec.db_values["OBJECTID"] = PyInt(before.next)
            /\ \A c \in last.writes[1].fields :
                  /\ after.rows[before.next][c] = sent[c]
                  /\ rec.db_values[c] = sent[c]

\* a record fetched with its geometry deferred was given a null identity
\* and saved
SaveInsertsWitness ==
    /\ SavedWithoutIdentity
    /\ "Shape" \in DOMAIN last.before.values
    /\ IsDeferred(last.before.values["Shape"])
    /\ last.result = TRUE
    /\ Cardinality(DOMAIN store.Widget.rows) = Len(FixtureStore.Widget.rows) + 1

\* the last call was a save that returned true
SaveReturnedTrue == last.op = "save" /\ last.outcome = "ok" /\ last.result = TRUE

\* the last call was a save that directly followed a save that returned true
SavedAgain ==
    /\ last.op = "save"
    /\ last.prior.op = "save" /\ last.prior.outcome = "ok"
    /\ last.prior.result = TRUE

\* C8: directly after a save that returned true, diff is empty, and a
\* second save returns false and writes nothing to the store.
SaveSettles ==
    /\ SaveReturnedTrue => DOMAIN diff(rec) = {}
    /\ SavedAgain => /\ last.outcome = "ok"
                     /\ last.result = FALSE
                     /\ last.writes = <<>>
                     /\ store = last.tables
                     /\ rec = last.before

\* a save that updated a row was followed by a second save
SaveSettlesWitness ==
    /\ SavedAgain
    /\ last.result = FALSE
    /\ rec.db_values["OBJECTID"] \in {PyInt(o) : o \in DOMAIN FixtureStore.Widget.rows}
    /\ \E o \in DOMAIN FixtureStore.Widget.rows :
          store.Widget.rows[o] # FixtureStore.Widget.rows[o]

\* the last call was save on a record with an identity that no row of the
\* store had, and with unsaved changes
SavedVanished ==
    /\ last.op = "save"
    /\ getattr(last.before, "OBJECTID") # PyNone
    /\ getattr(last.before, "OBJECTID").val \notin DOMAIN last.tables[last.before.cls].rows
    /\ DOMAIN diff(last.before) # {}

\* C9: save on a record with an identity and unsaved changes raises
\* LookupError when the store has no row with that identity, and leaves the
\* snapshot as it was, so diff still reports the same changes.
SaveMissingRow ==
    SavedVanished =>
        /\ last.outcome = "LookupError"
        /\ rec.db_values = last.before.db_values
        /\ diff(rec) = diff(last.before)
        /\ store = last.tables

SaveMissingRowWitness ==
    /\ SavedVanished
    /\ last.outcome = "LookupError"
    /\ "widget_number" \in DOMAIN diff(rec)
(***************************************************************************)
(* Properties of fields and scales.                                        *)
(***************************************************************************)
\* the multiple of 10^-places nearest to a float given in ten-thousandths
\* that is not half way between two of them
NearestAt(n, places) ==
    LET unit == 10 ^ (4 - places)
    IN  ((2 * n + unit) \div (2 * unit)) * unit

RoundsTo(db_scale, value) ==
    IF db_scale = PyNone \/ value = PyNone THEN value
    ELSE PyFloat(NearestAt(value.val, db_scale.val))

HasChangedOf(db_scale, old, new) ==
    /\ last.op = "has_changed"
    /\ field.db_scale = PyInt(db_scale)
    /\ last.args = <<PyFloat(old), PyFloat(new)>>

\* C18: has_changed(old, new) is true exactly when old and new round to
\* different values at the storage scale of the field, and compares the
\* values as they are when the field has no scale; at scale 2
\* has_changed(1.001, 1.004) is false and has_changed(1.001, 1.02) is true,
\* at scale 3 has_changed(1.002, 1.0022) is false and
\* has_changed(1.002, 1.0026) is true.
HasChangedAtScale ==
    last.op = "has_changed" =>
        /\ last.result = (RoundsTo(field.db_scale, last.args[1])
                            # RoundsTo(field.db_scale, last.args[2]))
        /\ field.db_scale = PyNone => last.result = (last.args[1] # last.args[2])
        /\ HasChangedOf(2, 10010, 10040) => ~last.result
        /\ HasChangedOf(2, 10010, 10200) => last.result
        /\ HasChangedOf(3, 10020, 10022) => ~last.result
        /\ HasChangedOf(3, 10020, 10026) => last.result

\* C18 witness: has_changed(1.001, 1.004) was asked of a field of scale 2
\* and answered false
HasChangedAtScaleWitness ==
    HasChangedOf(2, 10010, 10040) /\ ~last.result

ScoredExample(right) ==
    /\ last.op = "score"
    /\ scale.breaks = ExampleBreaks
    /\ scale.right = right

\* C19 as stated: the right-inclusive scale with breaks 100, 500, 1000 and
\* scores 1, 2, 3, 4 scores 50 and 100 as 1, 101 as 2, and 1000 and 5000
\* as 4.
ExampleScoresStated ==
    ScoredExample(TRUE) =>
        /\ last.args = <<PyInt(50)>> => last.result = PyInt(1)
        /\ last.args = <<PyInt(100)>> => last.result = PyInt(1)
        /\ last.args = <<PyInt(101)>> => last.result = PyInt(2)
        /\ last.args = <<PyInt(1000)>> => last.result = PyInt(4)
        /\ last.args = <<PyInt(5000)>> => last.result = PyInt(4)

\* C19: the right-inclusive scale with breaks 100, 500, 1000 and scores
\* 1, 2, 3, 4 scores 50 and 100 as 1, 101 as 2, 1000 as 3 (the break
\* belongs to the level below it) and 5000 as 4.
ExampleScores ==
    ScoredExample(TRUE) =>
        /\ last.args = <<PyInt(50)>> => last.result = PyInt(1)
        /\ last.args = <<PyInt(100)>> => last.result = PyInt(1)
        /\ last.args = <<PyInt(101)>> => last.result = PyInt(2)
        /\ last.args = <<PyInt(1000)>> => last.result = PyInt(3)
        /\ last.args = <<PyInt(5000)>> => last.result = PyInt(4)

\* C19 witness: the example scale has scored 1000
ExampleScoresWitness ==
    ScoredExample(TRUE) /\ last.args = <<PyInt(1000)>> /\ last.result = PyInt(3)

StrictlyIncreasing(breaks) ==
    \A i \in 1..(Len(breaks) - 1) : breaks[i].val < breaks[i + 1].val

\* the index of the level the statement gives a value: the number of breaks
\* below the value, plus those equal to it when the scale is left-inclusive,
\* plus one
StatedLevel(sc, value) ==
    1 + Cardinality({i \in 1..Len(sc.breaks) :
                        \/ LessThan(sc.breaks[i], value)
                        \/ ~sc.right /\ sc.breaks[i] = value})

\* C20: a BreaksScale with increasing breaks b1..bn and levels l1..l(n+1)
\* maps every numeric value to one level: l1 below b1, l(n+1) above bn,
\* l(i+1) strictly between b(i) and b(i+1), and on a break b(i) the level
\* l(i) when right-inclusive and l(i+1) when left-inclusive.
BreaksScaleLevels ==
    (last.op = "score" /\ StrictlyIncreasing(scale.breaks)) =>
        last.result = scale.levels[StatedLevel(scale, last.args[1])]

(***************************************************************************)
(* Properties of clones and of prefetching through a foreign key.          *)
(***************************************************************************)
\* C11: prefetch_related returns a new QuerySet and leaves the queued
\* relationship names of the receiver unchanged, and the queued names of a
\* QuerySet do not change because of a prefetch_related call on its clone.
PrefetchRelatedClones ==
    last.op = "prefetch_related" =>
        /\ last.new # NoQuerySet
        /\ lists[last.before._prefetch_rel] = last.lists[last.before._prefetch_rel]
        /\ held # NoQuerySet =>
               lists[held._prefetch_rel] = last.lists[held._prefetch_rel]

\* C12: once a QuerySet was cloned, no call on the clone or on the original
\* changes the requested field list, the condition or the ordering of the
\* other one (held is the other one of cur).
SharedQueryNotMutated ==
    [][(held # NoQuerySet /\ held' # NoQuerySet /\ last'.op # "swap") =>
          /\ lists'[held.fields] = lists[held.fields]
          /\ held'._where = held._where
          /\ held'._order_by = held._order_by]_vars

\* the batch of cur was fetched while warehouse_id was registered for prefetch
ForeignKeyBatch == cur # NoQuerySet /\ "warehouse_id" \in cur.batch_rels

\* the record of the warehouse the key of a widget refers to, None for a
\* null key
IsRelatedOf(related, widget) ==
    LET fk == widget.values["warehouse_id"]
    IN  IF fk = PyNone THEN related = PyNone
        ELSE /\ related # PyNone
             /\ related.cls = "Warehouse"
             /\ \A n \in Range(FieldNames("Warehouse")) :
                    related.values[n] =
                        store["Warehouse"].rows[fk.val][get_db_name("Warehouse", n)]

\* reading the relationship on a record of a prefetched batch returns the
\* related record of its key and issues no query
ReadsPrefetchedForeignKey ==
    (last.op = "read_foreign_key" /\ ForeignKeyBatch) =>
        /\ last.queries = 0
        /\ last.outcome = "ok"
        /\ IsRelatedOf(last.result[1], cur._cache.records[last.args[1]])

ManyToManyBatch == cur # NoQuerySet /\ "widgets" \in cur.batch_rels

\* the keys of the widgets the join rows link to a warehouse, in row order
LinkedWidgets(warehouse) ==
    LET mine == SelectSeq(store["Widget_Warehouse"].rows,
                    LAMBDA row : row["WarehouseID"] = getattr(warehouse, "OBJECTID"))
    IN  [j \in 1..Len(mine) |-> mine[j]["WidgetID"]]

\* C15: prefetching a many-to-many relationship for a non-empty fetched
\* batch performs exactly two queries besides the fetch and sets, for every
\* record of the batch, a prefetch cache entry that lists the far records
\* the join rows link to the record.
PrefetchManyToMany ==
    (FilledCache /\ ManyToManyBatch /\ cur._cache.records # <<>>) =>
        /\ last.outcome = "ok"
        /\ last.queries = 3
        /\ \A i \in 1..Len(cur._cache.records) :
              LET record == cur._cache.records[i]
              IN  /\ "widgets" \in DOMAIN record._prefetch_cache
                  /\ Len(record._prefetch_cache["widgets"]) = Len(LinkedWidgets(record))
                  /\ \A j \in 1..Len(LinkedWidgets(record)) :
                        /\ record._prefetch_cache["widgets"][j] # PyNone
                        /\ record._prefetch_cache["widgets"][j].cls = "Widget"
                        /\ getattr(record._prefetch_cache["widgets"][j], "OBJECTID")
                              = LinkedWidgets(record)[j]

(***************************************************************************)
(* Properties of attribute reads and assignments.                          *)
(***************************************************************************)
\* the last call read a field whose value was deferred
FirstRead == last.op = "read" /\ IsDeferred(last.before.values[last.args[1]])

\* the stored value of a field of the row the record was fetched from
StoredValue(record, name) ==
    store[record.cls].rows[getattr(record, "OBJECTID").val][get_db_name(record.cls, name)]

\* C13: a record made from a fetched row holds a deferred placeholder for
\* exactly the fields whose db name was not requested; the first read of
\* such a field issues one query that loads the value stored in the row of
\* the record's OID, the field then holds that value, and a read of a field
\* that holds a value issues no query.
DeferredLoadedOnce ==
    /\ (last.op = "fetch" /\ last.outcome = "ok") =>
          \A n \in Range(FieldNames(rec.cls)) :
              IsDeferred(rec.values[n]) <=>
                  get_db_name(rec.cls, n) \notin Range(last.args.fields)
    /\ FirstRead =>
          /\ last.outcome = "ok"
          /\ last.result.queries = 1
          /\ last.result.value = StoredValue(rec, last.args[1])
          /\ rec.values[last.args[1]] = StoredValue(rec, last.args[1])
    /\ (last.op = "read" /\ ~FirstRead) =>
          /\ last.result.queries = 0
          /\ last.result.value = last.before.values[last.args[1]]
          /\ rec = last.before

\* Shape was deferred, was read, and has just been read a second time
DeferredLoadedOnceWitness ==
    /\ last.op = "read"
    /\ last.args = <<"Shape">>
    /\ last.prior.op = "read"
    /\ last.prior.result.queries = 1
    /\ last.result.queries = 0
    /\ last.result.value = PyInt(12)

\* the key a value assigned to a foreign key stands for
KeyOf(value) == IF value.type = "int" \/ value = PyNone THEN value
                ELSE getattr(value, "OBJECTID")

\* C16: assigning a key or a related record to a foreign key stores the new
\* key in the values of the record and removes the prefetched record of the
\* relationship.
ForeignKeySetStoresKey ==
    (last.op = "setattr" /\ last.args[1] = "warehouse_id") =>
        /\ last.outcome = "ok"
        /\ rec.values["warehouse_id"] = KeyOf(last.args[2])
        /\ "warehouse_id" \notin DOMAIN rec._prefetch_cache

\* C17: assigning to a calculated field (MethodField, WeightsField or
\* ScaleField) raises an error and leaves the values and the snapshot
\* db_values of the record as they were.
CalculatedFieldRejectsSet ==
    (last.op = "setattr" /\ last.args[1] \in DOMAIN CalculatedFields) =>
        /\ last.outcome # "ok"
        /\ rec.values = last.before.values
        /\ rec.db_values = last.before.db_values

\* a fetched widget whose widget_number was changed has just had its scale
\* field assigned
CalculatedFieldRejectsSetWitness ==
    /\ last.op = "setattr"
    /\ last.args[1] = "widget_number_score"
    /\ last.outcome = "ValueError"
    /\ rec.values["widget_number"] # rec.db_values["widget_number"]

(***************************************************************************)
(* The meaning of a condition tree.                                        *)
(***************************************************************************)
\* the comparisons of a tree
RECURSIVE Leaves(_)
Leaves(c) ==
    IF IsQ(c) THEN UNION {Leaves(c.children[i]) : i \in 1..Len(c.children)}
    ELSE {c}

\* a tree built from comparisons on the queried table: no node has a
\* relationship scope and every node has a child
RECURSIVE OwnComparisons(_)
OwnComparisons(c) ==
    IsQ(c) =>
        /\ c.rel_name = None
        /\ c.children # <<>>
        /\ \A i \in 1..Len(c.children) : OwnComparisons(c.children[i])

\* the truth value of a tree when its comparisons have the truth values
\* of truth: the children joined by the operator of the node, negated
\* when the node is (what SQLCompiler.compile writes as SQL)
RECURSIVE Truth(_, _)
Truth(c, truth) ==
    IF ~IsQ(c) THEN truth[c]
    ELSE LET of_children == {Truth(c.children[i], truth) : i \in 1..Len(c.children)}
             joined == IF c.operator = "AND" THEN FALSE \notin of_children
                       ELSE TRUE \in of_children
         IN  IF c.negated THEN ~joined ELSE joined

\* C27: for a tree built from comparisons on the queried table with &, |
\* and ~, and for every assignment of truth values to the comparisons,
\* simplify(q) has the truth value of q; so the condition of
\* exclude(A).exclude(B) is equivalent to (NOT A) AND (NOT B).
SimplifyPreservesMeaning ==
    OwnComparisons(qa) =>
        \A truth \in [Leaves(qa) -> BOOLEAN] :
            Truth(simplify(qa), truth) = Truth(qa, truth)

(***************************************************************************)
(* Properties of saving changed records.                                   *)
(***************************************************************************)
\* the row of the record in tables
RowOf(tables, record) == tables[record.cls].rows[getattr(record, "OBJECTID").val]

\* C28: when a stored field (not calculated, not the OID) of a fetched
\* record holds a value that differs from the stored one, also a field that
\* was deferred when the record was fetched, diff() reports the field and
\* save() returns True and has written the value.
NoChangeDropped ==
    last.op = "save" =>
        \A n \in {"widget_number", "Shape"} :
            LET d == get_db_name(last.before.cls, n)
                v == last.before.values[n]
            IN  (~IsDeferred(v) /\ v # RowOf(last.tables, last.before)[d]) =>
                    /\ d \in DOMAIN diff(last.before)
                    /\ last.result = TRUE
                    /\ RowOf(store, last.before)[d] = v

(***************************************************************************)
(* Properties of the prefetch cache of fetched QuerySets.                  *)
(***************************************************************************)
\* C29: whenever the cache of a QuerySet is fetched and not empty, every
\* record of the cache has a prefetch cache entry for every relationship
\* name queued for the QuerySet, whatever the order of filter, all,
\* prefetch_related and iteration.
QueuedNamesPrefetched ==
    \A qs \in {cur, held} :
        (qs # NoQuerySet /\ qs._cache.fetched /\ qs._cache.records # <<>>) =>
            \A i \in 1..Len(qs._cache.records) :
                Range(lists[qs._prefetch_rel])
                    \subseteq DOMAIN qs._cache.records[i]._prefetch_cache

(***************************************************************************)
(* Properties of calculated fields.                                        *)
(***************************************************************************)
\* the current value of a dependency of a weights field: the value last
\* assigned to widget_number, doubled for double_method
Dependency(name) ==
    IF name = "widget_number" \/ rec.values["widget_number"] = PyNone
    THEN rec.values["widget_number"]
    ELSE PyInt(2 * rec.values["widget_number"].val)

\* the weighted sum of the current values, in ten-thousandths
WeightedSum ==
    LET part[i \in 0..Len(field.weights)] ==
            IF i = 0 THEN 0
            ELSE part[i - 1]
                 + Dependency(field.weights[i][1]).val
                   * Num(field.weights[i][2])
    IN  part[Len(field.weights)]

GetLevelsCoversSummarize ==
    /\ (last.op = "get_levels" /\ last.outcome = "ok") =>
           \A i, j \in 1..Len(last.result.value) :
               i < j => LevelLess(last.result.value[i], last.result.value[j])
    /\ (last.op = "summarize" /\ last.outcome = "ok"
        /\ get_levels(field).outcome = "ok") =>
           last.result.value \in Range(get_levels(field).levels)
\* the records of Widget.objects
FetchedWidgets ==
    _fetch_all(store, "Widget", MakeQueryFields("Widget"),
               NewQuerySet("Widget")._where, NewQuerySet("Widget")._order_by,
               <<>>).cache

\* C23: summarize(field) on the records of a QuerySet returns one bucket
\* for each level of get_levels(), in that order; the count of a bucket is
\* the number of fetched records whose level is the level of the bucket,
\* and the counts add up to the number of fetched records
BucketsCountEveryRecord ==
    (last.op = "summarize_all" /\ get_levels(field).outcome = "ok") =>
        LET use(levels, records, buckets) ==
                LET total[k \in 0..Len(buckets)] ==
                        IF k = 0 THEN 0 ELSE total[k - 1] + buckets[k].count
                IN  /\ Len(buckets) = Len(levels)
                    /\ \A k \in 1..Len(levels) :
                          /\ buckets[k].value = levels[k].value
                          /\ buckets[k].label = levels[k].label
                          /\ buckets[k].count =
                                Cardinality({i \in 1..Len(records) :
                                    summarize(field, records[i]).level = levels[k]})
                    /\ total[Len(buckets)] = Len(records)
        IN  /\ last.outcome = "ok"
            /\ use(get_levels(field).levels, FetchedWidgets, last.result.value)
\* the level of the value the field reads for the record the caller holds:
\* a ScaleField reads the value of its level, any other calculated field
\* reads the number that its scale places at a level
LevelOfReadValue ==
    IF field.kind = "ScaleField" THEN CalculatedField_get(field, rec)
    ELSE _as_scale_level(scale_get_level(field.scale.scale,
                             round(field, CalculatedField_get(field, rec)))).value

\* C30: for a calculated field with an activation condition, the level
\* summarize() assigns to a record is the level of the value the field
\* reads for that record; when the condition is false for the record that
\* is the level of the default
SummarizeAgreesWithRead ==
    (/\ last.op = "summarize"
     /\ last.outcome = "ok"
     /\ field.condition # NoCondition) =>
        last.result.value.value = LevelOfReadValue
(***************************************************************************)
(* Properties of validation.                                               *)
(***************************************************************************)
\* the messages validate returned about a field
MessagesOf(name) ==
    SelectSeq(last.result.messages,
              LAMBDA m : m[1] = DeclarationOf(name).label)

\* C24: validate returns its findings as a list of messages and raises
\* nothing.  It reports nothing about relationship fields, calculated
\* fields and fields that hold a deferred placeholder; for every other
\* field, a value of None with a true required_if gives the one message
\* that the field is missing, and otherwise the messages are those of the
\* validation of the field itself: missing for None in a required field,
\* invalid for a value outside the choices, out of range for a number
\* outside min and max
ValidateCollectsMessages ==
    last.op = "validate" =>
        /\ last.result.outcome = "ok"
        /\ \A i \in 1..Len(last.result.messages) :
               \E name \in Range(ValidatedNames) :
                   last.result.messages[i][1] = DeclarationOf(name).label
        /\ \A name \in Range(ValidatedNames) :
               LET declared == DeclarationOf(name)
                   value == rec.values[name]
                   missing == <<declared.label, "is missing">>
                   invalid == <<declared.label, "is invalid">>
                   range == <<declared.label, "out of range">>
               IN  IF \/ name \in {"warehouse_id", "widget_number_score"}
                      \/ value.type = "DeferredValue"
                   THEN MessagesOf(name) = <<>>
                   ELSE IF value = PyNone /\ declared.required_if # NoCondition
                           /\ rec.values["widget_available"] = Yes
                   THEN MessagesOf(name) = <<missing>>
                   ELSE IF declared.kind = "OIDField"
                   THEN MessagesOf(name) = <<>>
                   ELSE /\ (missing \in Range(MessagesOf(name)))
                              <=> (declared.required /\ value = PyNone)
                        /\ (invalid \in Range(MessagesOf(name)))
                              <=> (/\ value # PyNone
                                   /\ declared.choices # {}
                                   /\ value \notin declared.choices)
                        /\ (range \in Range(MessagesOf(name)))
                              <=> (/\ value # PyNone
                                   /\ \/ declared.min # PyNone
                                         /\ value.val < declared.min.val
                                      \/ declared.max # PyNone
                                         /\ value.val > declared.max.val)
                        /\ Len(MessagesOf(name)) <= 2

\* an available widget without a price, with an invalid base_field, a
\* numeric_field out of range and a Shape that is still deferred
ValidateCollectsMessagesWitness ==
    /\ last.op = "validate"
    /\ rec.values["widget_available"] = Yes
    /\ rec.values["widget_price"] = PyNone
    /\ rec.values["Shape"].type = "DeferredValue"
    /\ rec.values["base_field"] = PyInt(3)
    /\ rec.values["numeric_field"] = PyInt(11)
    /\ <<"Widget Price", "is missing">> \in Range(last.result.messages)
    /\ <<"Base Field", "is invalid">> \in Range(last.result.messages)
    /\ <<"Numeric Field", "out of range">> \in Range(last.result.messages)
(***************************************************************************)
(* Properties of edit sessions.                                            *)
(***************************************************************************)
\* C25: every edit session that the workspace begins, by the edit() scope
\* or by insert_row, is ended exactly once: it is committed when the
\* enclosed write completes and aborted when it raises, and no session is
\* open after the operation returned or raised
EditSessionEndedOnce ==
    last.op \in {"edit", "insert_row"} =>
        LET starts == {i \in 1..Len(last.calls) : last.calls[i] = "startEditing"}
            commits == {i \in 1..Len(last.calls) :
                           last.calls[i] = "stopEditing(True)"}
            aborts == {i \in 1..Len(last.calls) :
                          last.calls[i] = "stopEditing(False)"}
        IN  /\ starts = {1}
            /\ Cardinality(commits \cup aborts) = 1
            /\ commits # {} <=> last.outcome = "ok"
            /\ aborts # {} <=> last.outcome # "ok"
            /\ ~editor.editing
            /\ ~editor.operation
(***************************************************************************)
(* Properties of Q objects.                                                *)
(***************************************************************************)
\* C26: &, | and ~ return a new Q object and change none of their
\* operands: after the call, and after any further combining, simplifying
\* and compiling, every object the caller holds has the operator, negated
\* flag, rel_name and children it had when the caller got it
OperandsNotMutated ==
    /\ \A k \in 1..Len(objects.names) :
           Tree(objects.objs, objects.names[k].id) = objects.names[k].tree
    /\ last.op \in {"AND", "OR", "invert"} => last.result > last.before

\* a & b of two held objects with children was compiled, and the caller
\* still holds a and b
OperandsNotMutatedWitness ==
    /\ last.op = "compile"
    /\ Len(objects.names) = 3
    /\ objects.names[last.args[1]].by = "AND"
    /\ objects.names[1].tree.children # <<>>
    /\ objects.names[2].tree.children # <<>>
    /\ objects.names[1].tree # objects.names[2].tree
====
